---------------------------- MODULE Spec2Model ----------------------------
(***************************************************************************)
(* Model of the IMFEOD mapper (src/map.py): the source file locator, the   *)
(* TSV parser, the aggregation into column keys, the projection on the     *)
(* hardcoded schema and the top-level run.                                 *)
(*                                                                         *)
(* Text is modelled as Python sees it: a str is a sequence of one-character*)
(* strings (tab and newline included), and the str methods the code calls  *)
(* (strip, split, lower, upper, replace, startswith, `in') are operators   *)
(* on such sequences.  Column keys, which the code only builds and compares*)
(* are TLA+ strings obtained from character sequences by Str.              *)
(*                                                                         *)
(* Numbers: a Python float is modelled by an exact decimal [m, e] standing *)
(* for m * 10^(-e), normalised so that equal numbers are equal records.    *)
(* The amounts the inputs use are multiples of 1/2, for which float        *)
(* arithmetic is exact as well.                                            *)
(***************************************************************************)
EXTENDS Integers, Sequences, FiniteSets, TLC

VARIABLES
    pc,              \* position of the operation under study
    directory,       \* the files under the search root, in os.walk order
    tsv_files,       \* find_country_files' result: country -> file (partial)
    file,            \* the file handed to parse_tsv_file: [readable, lines]
    tsv_data,        \* parse_tsv_file's outcome (dataset or raised error)
    mappings,        \* generate_mapping_from_tsv's outcome for that dataset
    all_mappings,    \* process_all_countries' accumulator
    extracted_dates, \* process_all_countries' country -> date text
    file_idx,        \* loop position of process_all_countries
    read_log,        \* history: the text read for each processed file
    write_log,       \* history: every (key, value) write, in program order
    output,          \* what main wrote: the output file, or nothing
    data_row,        \* the values export_to_excel is about to write
    driver,          \* IMFScraper.driver: "none", "running" or "quit"
    country_idx,     \* run's position in self.countries (0-based)
    attempt,         \* run's attempt number for that country
    successful_downloads, \* run's counter
    run_result,      \* what run returned: "none" yet, "true" or "false"
    download_dir,    \* the names of the files in the download directory
    calls,           \* history: every call of process_country and its result
    skip_scraping,   \* the orchestrator's flag
    scraping_success, \* orchestrator field
    mapping_success, \* orchestrator field
    steps,           \* history: the steps run_pipeline executed, with results
    pipeline_result  \* what run_pipeline returned: "none" yet, "true", "false"

vars == <<pc, directory, tsv_files, file, tsv_data, mappings, all_mappings,
          extracted_dates, file_idx, read_log, write_log, output, data_row,
          driver, country_idx, attempt, successful_downloads, run_result,
          download_dir, calls,
          skip_scraping, scraping_success, mapping_success, steps,
          pipeline_result>>

\* the variables of the mapper (map.py), of the scraper (main.py) and of
\* the orchestrator (orchestrator.py)
mapper_vars == <<directory, tsv_files, file, tsv_data, mappings, all_mappings,
                 extracted_dates, file_idx, read_log, write_log, output,
                 data_row>>
scraper_vars == <<driver, country_idx, attempt, successful_downloads,
                  run_result, download_dir, calls>>
pipeline_vars == <<skip_scraping, scraping_success, mapping_success, steps,
                   pipeline_result>>

\* IMFScraper after __init__, before run: no driver, no call made
ScraperIdle ==
    /\ driver = "none" /\ country_idx = 0 /\ attempt = 1
    /\ successful_downloads = 0 /\ run_result = "none"
    /\ download_dir = {} /\ calls = <<>>

\* IMFPipelineOrchestrator after __init__ with the default arguments
PipelineIdle ==
    /\ skip_scraping = FALSE /\ scraping_success = FALSE
    /\ mapping_success = FALSE /\ steps = <<>> /\ pipeline_result = "none"

----------------------------------------------------------------------------
(* Python str primitives                                                    *)

Lowers == <<"a","b","c","d","e","f","g","h","i","j","k","l","m","n","o","p","q","r","s","t","u","v","w","x","y","z">>
Uppers == <<"A","B","C","D","E","F","G","H","I","J","K","L","M","N","O","P","Q","R","S","T","U","V","W","X","Y","Z">>
Digits == <<"0","1","2","3","4","5","6","7","8","9">>

Range(f) == {f[i] : i \in DOMAIN f}
LowerSet == Range(Lowers)
UpperSet == Range(Uppers)
DigitSet == Range(Digits)

IsDigit(c) == c \in DigitSet
\* str.isspace / regex \s for the ASCII characters the inputs can hold
SpaceSet == {" ", "\t", "\n", "\r", "\f"}

IndexIn(tbl, c) == CHOOSE i \in DOMAIN tbl : tbl[i] = c
ToLower == [c \in UpperSet |-> Lowers[IndexIn(Uppers, c)]]
ToUpper == [c \in LowerSet |-> Uppers[IndexIn(Lowers, c)]]
lowerChr(c) == IF c \in UpperSet THEN ToLower[c] ELSE c
upperChr(c) == IF c \in LowerSet THEN ToUpper[c] ELSE c
DigitVal(c) == IndexIn(Digits, c) - 1

lower(s) == [i \in 1..Len(s) |-> lowerChr(s[i])]
upper(s) == [i \in 1..Len(s) |-> upperChr(s[i])]

Min(S) == CHOOSE x \in S : \A y \in S : x <= y
Max(S) == CHOOSE x \in S : \A y \in S : x >= y

\* s.strip(): leading and trailing whitespace removed
strip(s) ==
    LET keep == {i \in 1..Len(s) : s[i] \notin SpaceSet}
    IN  IF keep = {} THEN <<>> ELSE SubSeq(s, Min(keep), Max(keep))

\* s.replace(c, ''): every occurrence of the character c removed
replace_del(s, c) == SelectSeq(s, LAMBDA x : x # c)
\* s.replace(c, d) for single characters c, d
replace_chr(s, c, d) == [i \in 1..Len(s) |-> IF s[i] = c THEN d ELSE s[i]]

\* s[i:] has prefix p  (0-based i)
MatchAt(p, s, i) ==
    /\ i + Len(p) <= Len(s)
    /\ \A j \in 1..Len(p) : s[i + j] = p[j]
\* `p in s'
contains(p, s) == \E i \in 0..(Len(s) - Len(p)) : MatchAt(p, s, i)
startswith(s, p) == MatchAt(p, s, 0)

\* s.split(sep) for a one-character separator
RECURSIVE split(_, _)
split(s, sep) ==
    LET at == {i \in 1..Len(s) : s[i] = sep}
    IN  IF at = {} THEN <<s>>
        ELSE <<SubSeq(s, 1, Min(at) - 1)>>
                 \o split(SubSeq(s, Min(at) + 1, Len(s)), sep)

\* the TLA+ string spelt by a character sequence
RECURSIVE Str(_)
Str(s) == IF Len(s) = 0 THEN "" ELSE Head(s) \o Str(Tail(s))

----------------------------------------------------------------------------
(* Exact decimals standing for Python floats                                *)

RECURSIVE Normalise(_, _)
Normalise(m, e) ==
    IF e > 0 /\ m % 10 = 0 THEN Normalise(m \div 10, e - 1)
    ELSE [m |-> m, e |-> e]

RECURSIVE Pow10(_)
Pow10(n) == IF n = 0 THEN 1 ELSE 10 * Pow10(n - 1)

Dec(m, e) == Normalise(m, e)
Zero == Dec(0, 0)
Add(a, b) ==
    LET E == IF a.e >= b.e THEN a.e ELSE b.e
    IN  Normalise(a.m * Pow10(E - a.e) + b.m * Pow10(E - b.e), E)

\* sum(...) of a sequence of amounts; sum of nothing is 0
RECURSIVE Sum(_)
Sum(q) == IF Len(q) = 0 THEN Zero ELSE Add(Sum(SubSeq(q, 1, Len(q) - 1)), q[Len(q)])

RECURSIVE ParseNat(_)
ParseNat(ds) ==
    IF Len(ds) = 0 THEN 0
    ELSE 10 * ParseNat(SubSeq(ds, 1, Len(ds) - 1)) + DigitVal(ds[Len(ds)])

\* float(s) for s over digits, '.', sign, ',', blanks and the letters a-d:
\* [sign] digits [. [digits]] | [sign] . digits ; anything else raises
\* ValueError (ok = FALSE).  Exponents, underscores, inf and nan are outside
\* the alphabet of the inputs.
float(s0) ==
    LET Raised == [ok |-> FALSE, val |-> Zero]
        Value(sign, ip, fp) ==
            IF /\ \A i \in 1..Len(ip) : IsDigit(ip[i])
               /\ \A i \in 1..Len(fp) : IsDigit(fp[i])
               /\ Len(ip) + Len(fp) > 0
            THEN [ok |-> TRUE, val |-> Dec(sign * ParseNat(ip \o fp), Len(fp))]
            ELSE Raised
        Split(sign, body, dots) ==
            IF dots = {} THEN Value(sign, body, <<>>)
            ELSE IF Cardinality(dots) > 1 THEN Raised
            ELSE LET d == Min(dots)
                 IN  Value(sign, SubSeq(body, 1, d - 1),
                           SubSeq(body, d + 1, Len(body)))
        Unsigned(sign, body) ==
            Split(sign, body, {i \in 1..Len(body) : body[i] = "."})
        Signed(s) ==
            IF Len(s) > 0 /\ s[1] \in {"-", "+"}
            THEN Unsigned(IF s[1] = "-" THEN 0 - 1 ELSE 1, Tail(s))
            ELSE Unsigned(1, s)
    IN  Signed(strip(s0))

----------------------------------------------------------------------------
(* IMFDataMapper: constants                                                 *)

Ireland  == <<"I","r","e","l","a","n","d">>
Greece   == <<"G","r","e","e","c","e">>
Portugal == <<"P","o","r","t","u","g","a","l">>

\* self.country_codes, in the dict's order
Countries == <<Ireland, Greece, Portugal>>
country_codes ==
    [c \in {Ireland, Greece, Portugal} |->
        IF c = Ireland THEN "IRL" ELSE IF c = Greece THEN "GRC" ELSE "PRT"]

\* self.country_name_mappings: variant (lower case) -> country
country_name_mappings ==
    (<<"i","r","e","l","a","n","d">> :> Ireland) @@ (<<"i","r","i","s","h">> :> Ireland)
        @@ (<<"r","e","p","u","b","l","i","c"," ","o","f"," ","i","r","e","l","a","n","d">> :> Ireland)
        @@ (<<"g","r","e","e","c","e">> :> Greece) @@ (<<"g","r","e","e","k">> :> Greece)
        @@ (<<"h","e","l","l","e","n","i","c"," ","r","e","p","u","b","l","i","c">> :> Greece) @@ (<<"h","e","l","l","a","s">> :> Greece)
        @@ (<<"p","o","r","t","u","g","a","l">> :> Portugal) @@ (<<"p","o","r","t","u","g","u","e","s","e">> :> Portugal)
        @@ (<<"p","o","r","t","u","g","u","e","s","e"," ","r","e","p","u","b","l","i","c">> :> Portugal)

facility_type_mapping ==
    [f \in {<<"E","x","t","e","n","d","e","d"," ","F","u","n","d"," ","F","a","c","i","l","i","t","y">>, <<"S","t","a","n","d","b","y"," ","A","r","r","a","n","g","e","m","e","n","t">>} |->
        IF f = <<"E","x","t","e","n","d","e","d"," ","F","u","n","d"," ","F","a","c","i","l","i","t","y">> THEN "EXTFUNDFACILITY"
        ELSE "STANDBYARRANGEMENT"]

amount_types == <<"AMOUNTAGREED", "AMOUNTDRAWN", "AMOUNTOUTSTANDING">>

HARDCODED_COLUMN_HEADERS == <<
    "",
    "IMFEOD.EXTFUNDFACILITY2010DEC16.AMOUNTAGREED.IRL.M",
    "IMFEOD.EXTFUNDFACILITY2010DEC16.AMOUNTDRAWN.IRL.M",
    "IMFEOD.EXTFUNDFACILITY2010DEC16.AMOUNTOUTSTANDING.IRL.M",
    "IMFEOD.TOTAL.AMOUNTAGREED.IRL.M",
    "IMFEOD.TOTAL.AMOUNTDRAWN.IRL.M",
    "IMFEOD.TOTAL.AMOUNTOUTSTANDING.IRL.M",
    "IMFEOD.EXTFUNDFACILITY2012MAR15.AMOUNTAGREED.GRC.M",
    "IMFEOD.EXTFUNDFACILITY2012MAR15.AMOUNTDRAWN.GRC.M",
    "IMFEOD.EXTFUNDFACILITY2012MAR15.AMOUNTOUTSTANDING.GRC.M",
    "IMFEOD.STANDBYARRANGEMENT2010MAY09.AMOUNTAGREED.GRC.M",
    "IMFEOD.STANDBYARRANGEMENT2010MAY09.AMOUNTDRAWN.GRC.M",
    "IMFEOD.STANDBYARRANGEMENT2010MAY09.AMOUNTOUTSTANDING.GRC.M",
    "IMFEOD.TOTAL.AMOUNTAGREED.GRC.M",
    "IMFEOD.TOTAL.AMOUNTDRAWN.GRC.M",
    "IMFEOD.TOTAL.AMOUNTOUTSTANDING.GRC.M",
    "IMFEOD.EXTFUNDFACILITY2011MAY20.AMOUNTAGREED.PRT.M",
    "IMFEOD.EXTFUNDFACILITY2011MAY20.AMOUNTDRAWN.PRT.M",
    "IMFEOD.EXTFUNDFACILITY2011MAY20.AMOUNTOUTSTANDING.PRT.M",
    "IMFEOD.STANDBYARRANGEMENT1983OCT07.AMOUNTAGREED.PRT.M",
    "IMFEOD.STANDBYARRANGEMENT1983OCT07.AMOUNTDRAWN.PRT.M",
    "IMFEOD.STANDBYARRANGEMENT1983OCT07.AMOUNTOUTSTANDING.PRT.M",
    "IMFEOD.STANDBYARRANGEMENT1978JUN05.AMOUNTAGREED.PRT.M",
    "IMFEOD.STANDBYARRANGEMENT1978JUN05.AMOUNTDRAWN.PRT.M",
    "IMFEOD.STANDBYARRANGEMENT1978JUN05.AMOUNTOUTSTANDING.PRT.M",
    "IMFEOD.STANDBYARRANGEMENT1977APR25.AMOUNTAGREED.PRT.M",
    "IMFEOD.STANDBYARRANGEMENT1977APR25.AMOUNTDRAWN.PRT.M",
    "IMFEOD.STANDBYARRANGEMENT1977APR25.AMOUNTOUTSTANDING.PRT.M",
    "IMFEOD.TOTAL.AMOUNTAGREED.PRT.M",
    "IMFEOD.TOTAL.AMOUNTDRAWN.PRT.M",
    "IMFEOD.TOTAL.AMOUNTOUTSTANDING.PRT.M" >>

----------------------------------------------------------------------------
(* Column-key derivation                                                    *)

\* the number of leading characters of s[i:] (0-based i) that are in chars
Span(s, i, chars) ==
    LET stops == {k \in (i + 1)..Len(s) : s[k] \notin chars}
    IN  IF stops = {} THEN Len(s) - i ELSE Min(stops) - i - 1

\* the number of characters of s[:i] (the first i ones), counted from the
\* end, that are in chars
BackSpan(s, i, chars) ==
    LET stops == {k \in 1..i : s[k] \notin chars}
    IN  IF stops = {} THEN i ELSE i - Max(stops)

MonthAbbr == << <<"j","a","n">>, <<"f","e","b">>, <<"m","a","r">>, <<"a","p","r">>, <<"m","a","y">>, <<"j","u","n">>,
                <<"j","u","l">>, <<"a","u","g">>, <<"s","e","p">>, <<"o","c","t">>, <<"n","o","v">>, <<"d","e","c">> >>

DaysIn(y, m) ==
    IF m = 2
    THEN (IF (y % 4 = 0 /\ y % 100 # 0) \/ y % 400 = 0 THEN 29 ELSE 28)
    ELSE IF m \in {4, 6, 9, 11} THEN 30 ELSE 31

\* datetime.strptime(s, '%b %d, %Y'): month abbreviation (any case), blanks,
\* a day of one or two digits, a comma, blanks, four digits, and nothing
\* after; the day must exist in that month and the year must not be 0.
strptime(s) ==
    LET bad == [ok |-> FALSE, year |-> 0, month |-> 0, day |-> 0]
        Result(month, day, year) ==
            IF year = 0 \/ day = 0 \/ day > DaysIn(year, month) THEN bad
            ELSE [ok |-> TRUE, year |-> year, month |-> month, day |-> day]
        Year(month, day, ytxt) ==
            IF Len(ytxt) # 4 \/ ~(\A i \in 1..Len(ytxt) : IsDigit(ytxt[i]))
            THEN bad
            ELSE Result(month, day, ParseNat(ytxt))
        \* p2 characters are read up to the comma, w2 blanks follow it
        Comma(month, day, p2, w2) ==
            IF w2 = 0 THEN bad
            ELSE Year(month, day, SubSeq(s, p2 + w2 + 2, Len(s)))
        \* p1 characters are read up to the day, which has nd digits
        Day(month, p1, nd) ==
            IF ~(nd \in {1, 2}) \/ ~(p1 + nd < Len(s) /\ s[p1 + nd + 1] = ",")
            THEN bad
            ELSE Comma(month, ParseNat(SubSeq(s, p1 + 1, p1 + nd)), p1 + nd,
                       Span(s, p1 + nd + 1, SpaceSet))
        Month(mon, w1) ==
            IF ~(mon \in Range(MonthAbbr)) \/ w1 = 0 THEN bad
            ELSE Day(IndexIn(MonthAbbr, mon), 3 + w1, Span(s, 3 + w1, DigitSet))
    IN  IF Len(s) < 3 THEN bad
        ELSE Month(lower(SubSeq(s, 1, 3)), Span(s, 3, SpaceSet))

\* parse_date_to_code with the day written without the zero padding
parse_date_to_code_day_unpadded(date_str) ==
    LET strftime(dt) ==
            ToString(dt.year) \o Str(upper(MonthAbbr[dt.month]))
                \o ToString(dt.day)
        Code(dt) ==
            IF dt.ok THEN strftime(dt)
            ELSE Str(upper(replace_del(replace_del(date_str, " "), ",")))
    IN  Code(strptime(date_str))

parse_date_to_code(date_str) ==
    LET strftime(dt) ==
            ToString(dt.year) \o Str(upper(MonthAbbr[dt.month]))
                \o (IF dt.day < 10 THEN "0" ELSE "") \o ToString(dt.day)
        Code(dt) ==
            IF dt.ok THEN strftime(dt)
            ELSE Str(upper(replace_del(replace_del(date_str, " "), ",")))
    IN  Code(strptime(date_str))

generate_column_header(country, facility_type, date_str, amount_type) ==
    LET country_code ==
            IF country \in DOMAIN country_codes THEN country_codes[country]
            ELSE Str(SubSeq(upper(country), 1, IF Len(country) < 3 THEN Len(country) ELSE 3))
        facility_code ==
            IF facility_type \in DOMAIN facility_type_mapping
            THEN facility_type_mapping[facility_type]
            ELSE Str(replace_del(upper(facility_type), " "))
        date_code == parse_date_to_code(date_str)
    IN  "IMFEOD." \o facility_code \o date_code \o "." \o amount_type
            \o "." \o country_code \o ".M"

----------------------------------------------------------------------------
(* Header detection                                                         *)

\* column_patterns of detect_columns, in the dict's order
column_patterns == <<
    [field |-> "facility_type",
     patterns |-> << <<"f","a","c","i","l","i","t","y">>, <<"t","y","p","e">>, <<"a","r","r","a","n","g","e","m","e","n","t"," ","t","y","p","e">> >>],
    [field |-> "arrangement_date",
     patterns |-> << <<"d","a","t","e">>, <<"a","r","r","a","n","g","e","m","e","n","t"," ","d","a","t","e">>, <<"e","f","f","e","c","t","i","v","e"," ","d","a","t","e">>, <<"a","p","p","r","o","v","a","l"," ","d","a","t","e">> >>],
    [field |-> "amount_agreed",
     patterns |-> << <<"a","g","r","e","e","d">>, <<"a","m","o","u","n","t"," ","a","g","r","e","e","d">>, <<"c","o","m","m","i","t","t","e","d">>, <<"c","o","m","m","i","t","m","e","n","t">> >>],
    [field |-> "amount_drawn",
     patterns |-> << <<"d","r","a","w","n">>, <<"a","m","o","u","n","t"," ","d","r","a","w","n">>, <<"d","i","s","b","u","r","s","e","d">>, <<"d","i","s","b","u","r","s","e","m","e","n","t">> >>],
    [field |-> "amount_outstanding",
     patterns |-> << <<"o","u","t","s","t","a","n","d","i","n","g">>, <<"a","m","o","u","n","t"," ","o","u","t","s","t","a","n","d","i","n","g">>, <<"b","a","l","a","n","c","e">>, <<"r","e","m","a","i","n","i","n","g">> >> ] >>

\* the inner `for field_name, patterns' loop for header i, from role k on:
\* a matching role takes index i; a role that is already mapped ends the loop
RECURSIVE MatchRoles(_, _, _, _)
MatchRoles(column_map, header_lower, i, k) ==
    LET Role(cp) ==
            IF \E p \in Range(cp.patterns) : contains(p, header_lower)
            THEN (cp.field :> i) @@ column_map
            ELSE IF cp.field \in DOMAIN column_map THEN column_map
            ELSE MatchRoles(column_map, header_lower, i, k + 1)
    IN  IF k > Len(column_patterns) THEN column_map
        ELSE Role(column_patterns[k])

RECURSIVE DetectFrom(_, _, _)
DetectFrom(headers, column_map, i) ==
    IF i >= Len(headers) THEN column_map
    ELSE DetectFrom(headers,
                    MatchRoles(column_map, strip(lower(headers[i + 1])), i, 1),
                    i + 1)

\* the role -> 0-based column index mapping of a header line
detect_columns(header_line) ==
    DetectFrom(split(strip(header_line), "\t"), <<>>, 0)

\* header_patterns of find_data_start; the code tests them with `in', so
\* each is a literal substring
header_patterns == << <<"f","a","c","i","l","i","t","y">>, <<"a","r","r","a","n","g","e","m","e","n","t">>, <<"t","y","p","e">>, <<"d","a","t","e",".","*","a","m","o","u","n","t">>,
                      <<"a","g","r","e","e","d",".","*","d","r","a","w","n",".","*","o","u","t","s","t","a","n","d","i","n","g">> >>

IsHeaderLine(line) ==
    LET line_lower == lower(line)
    IN  /\ \E p \in Range(header_patterns) : contains(p, line_lower)
        /\ contains(<<"\t">>, line)

\* (data_start_index, column_mappings), or found = FALSE for (None, None)
find_data_start(ls) ==
    LET At(i) == [found |-> TRUE, start |-> i,
                  column_map |-> detect_columns(ls[i])]
        First(hs) ==
            IF hs = {} THEN [found |-> FALSE, start |-> 0, column_map |-> <<>>]
            ELSE At(Min(hs))
    IN  First({i \in 1..Len(ls) : IsHeaderLine(ls[i])})

----------------------------------------------------------------------------
(* Country identification                                                   *)

\* the class [A-Za-z\s]
NameChrSet == LowerSet \cup UpperSet \cup SpaceSet

None == [some |-> FALSE, name |-> <<>>]
Some(n) == [some |-> TRUE, name |-> n]

\* ([A-Za-z\s]+):\s*History of Lending Commitments
\* the group is the run of name characters that ends at the first colon
\* which has such a run before it and the title after it
CountryPattern1(line) ==
    LET Group(e) ==
            Some(SubSeq(line, e - BackSpan(line, e - 1, NameChrSet), e - 1))
        First(colons) == IF colons = {} THEN None ELSE Group(Min(colons))
        Colons(ll) ==
            {e \in 2..Len(line) :
                /\ line[e] = ":" /\ line[e - 1] \in NameChrSet
                /\ MatchAt(<<"h","i","s","t","o","r","y"," ","o","f"," ","l","e","n","d","i","n","g"," ","c","o","m","m","i","t","m","e","n","t","s">>, ll,
                           e + Span(line, e, SpaceSet))}
    IN  First(Colons(lower(line)))

\* Country:\s*([A-Za-z\s]+)
\* after `country:' at i come ws blanks, of a run of name characters
\* the group needs one of
CountryPattern2(line) ==
    LET Group(i, run, ws) ==
            Some(SubSeq(line, i + 8 + (IF ws = run THEN ws - 1 ELSE ws) + 1,
                        i + 8 + run))
        At(i) ==
            Group(i, Span(line, i + 8, NameChrSet), Span(line, i + 8, SpaceSet))
        First(starts) == IF starts = {} THEN None ELSE At(Min(starts))
        Starts(ll) ==
            {i \in 0..(Len(line) - 1) :
                /\ MatchAt(<<"c","o","u","n","t","r","y",":">>, ll, i)
                /\ Span(line, i + 8, NameChrSet) >= 1}
    IN  First(Starts(lower(line)))

\* ^([A-Za-z\s]+)\s*-\s*IMF
CountryPattern3(line) ==
    LET Dash(run) ==
            IF /\ run >= 1 /\ run < Len(line) /\ line[run + 1] = "-"
               /\ MatchAt(<<"i","m","f">>, lower(line),
                          run + 1 + Span(line, run + 1, SpaceSet))
            THEN Some(SubSeq(line, 1, run))
            ELSE None
    IN  Dash(Span(line, 0, NameChrSet))

\* IMF.*Commitments.*?([A-Za-z\s]+)$
\* the group is the line's last run of name characters, from after the
\* last `commitments' that follows an `imf' at the earliest
CountryPattern4(line) ==
    LET n == Len(line)
        Group(p) == Some(SubSeq(line, p + 1, n))
        Last(tail, coms) ==
            IF coms = {} THEN None
            ELSE Group(IF Max(coms) + 11 >= tail THEN Max(coms) + 11 ELSE tail)
        Coms(ll, tail, imfs) ==
            {j \in 0..(n - 1) :
                /\ MatchAt(<<"c","o","m","m","i","t","m","e","n","t","s">>, ll, j)
                /\ j + 11 <= n - 1 /\ tail <= n - 1
                /\ \E i \in imfs : i + 3 <= j}
        Imfs(ll) == {i \in 0..(n - 1) : MatchAt(<<"i","m","f">>, ll, i)}
        Search(ll, tail) == Last(tail, Coms(ll, tail, Imfs(ll)))
    IN  Search(lower(line), n - BackSpan(line, n, NameChrSet))

\* the first of two match results that is a match
OrElse(m, rest) == IF m.some THEN m ELSE rest

CountryMatch(line) ==
    OrElse(CountryPattern1(line),
           OrElse(CountryPattern2(line),
                  OrElse(CountryPattern3(line), CountryPattern4(line))))

\* the stripped group of the first pattern matching a line, looking at
\* lines i.. up to the 20th, or None
RECURSIVE FindCountryFrom(_, _)
FindCountryFrom(ls, i) ==
    LET Take(m) ==
            IF m.some THEN Some(strip(m.name)) ELSE FindCountryFrom(ls, i + 1)
    IN  IF i > Len(ls) \/ i > 20 THEN None ELSE Take(CountryMatch(ls[i]))

\* find_country_name without the limit to the first 20 lines
find_country_name_all_lines(ls) ==
    LET First(hits) ==
            IF hits = {} THEN None
            ELSE Some(strip(CountryMatch(ls[Min(hits)]).name))
    IN  First({i \in 1..Len(ls) : CountryMatch(ls[i]).some})

find_country_name(ls) == FindCountryFrom(ls, 1)

----------------------------------------------------------------------------
(* Row extraction                                                           *)

\* clean_amount without the removal of the thousands separators
clean_amount_keep_commas(amount_str) ==
    LET Float(t) == IF Len(t) = 0 THEN [ok |-> TRUE, val |-> Zero] ELSE float(t)
    IN  Float(strip(amount_str))

\* float(amount_str.replace(',', '').strip() or 0); ok = FALSE: ValueError
clean_amount(amount_str) ==
    LET Float(t) == IF Len(t) = 0 THEN [ok |-> TRUE, val |-> Zero] ELSE float(t)
    IN  Float(strip(replace_del(amount_str, ",")))

summary_words == << <<"t","o","t","a","l">>, <<"s","u","m">>, <<"g","r","a","n","d">>, <<"o","v","e","r","a","l","l">> >>

\* the summary-row test without the lower-casing of the first cell
IsTotalRow_case_sensitive(parts) ==
    \E w \in Range(summary_words) : contains(w, strip(parts[1]))

\* the `Skip total rows' test on the first cell of the split line
IsTotalRow(parts) ==
    \E w \in Range(summary_words) : contains(w, lower(strip(parts[1])))

\* one amount field of a row: the cleaned cell when the role is mapped and
\* the row is long enough, else 0.0
AmountOf(parts, column_map, field) ==
    IF field \in DOMAIN column_map /\ column_map[field] < Len(parts)
    THEN clean_amount(parts[column_map[field] + 1])
    ELSE [ok |-> TRUE, val |-> Zero]

\* the body of the row loop of parse_tsv_file for one line after the
\* header: kept = FALSE when the line is skipped (too short, summary row,
\* empty first cell, IndexError or ValueError inside the try block)
ParseRow(line, column_map) ==
    LET skip   == [kept |-> FALSE, facility |-> <<>>]
        ft_idx == IF "facility_type" \in DOMAIN column_map
                  THEN column_map["facility_type"] ELSE 0
        has_d  == "arrangement_date" \in DOMAIN column_map
        \* the try block, given the three cleaned amounts
        Facility(parts, agreed, drawn, outst) ==
            IF ft_idx >= Len(parts) THEN skip
            ELSE IF has_d /\ column_map["arrangement_date"] >= Len(parts) THEN skip
            ELSE IF ~agreed.ok \/ ~drawn.ok \/ ~outst.ok THEN skip
            ELSE [kept |-> TRUE,
                  facility |->
                    [facility_type |-> strip(parts[ft_idx + 1]),
                     arrangement_date |->
                         IF has_d
                         THEN strip(parts[column_map["arrangement_date"] + 1])
                         ELSE <<>>,
                     amount_agreed |-> agreed.val,
                     amount_drawn |-> drawn.val,
                     amount_outstanding |-> outst.val]]
        Row(parts) ==
            IF Len(parts) < 2 THEN skip
            ELSE IF IsTotalRow(parts) THEN skip
            ELSE IF Len(strip(parts[1])) = 0 THEN skip
            ELSE Facility(parts,
                          AmountOf(parts, column_map, "amount_agreed"),
                          AmountOf(parts, column_map, "amount_drawn"),
                          AmountOf(parts, column_map, "amount_outstanding"))
    IN  Row(split(strip(line), "\t"))

\* the row loop ended by the first line that is skipped
RECURSIVE ParseRows_stop_at_skip(_, _, _)
ParseRows_stop_at_skip(ls, column_map, i) ==
    LET Cons(r, rest) ==
            IF r.kept
            THEN [facilities |-> <<r.facility>> \o rest.facilities,
                  src |-> <<i>> \o rest.src]
            ELSE [facilities |-> <<>>, src |-> <<>>]
    IN  IF i > Len(ls) THEN [facilities |-> <<>>, src |-> <<>>]
        ELSE Cons(ParseRow(ls[i], column_map),
                  ParseRows_stop_at_skip(ls, column_map, i + 1))

\* the facilities built from lines i.. of the file, with the 1-based line
\* number each one comes from (src is bookkeeping for the properties)
RECURSIVE ParseRows(_, _, _)
ParseRows(ls, column_map, i) ==
    LET Cons(r, rest) ==
            IF r.kept
            THEN [facilities |-> <<r.facility>> \o rest.facilities,
                  src |-> <<i>> \o rest.src]
            ELSE rest
    IN  IF i > Len(ls) THEN [facilities |-> <<>>, src |-> <<>>]
        ELSE Cons(ParseRow(ls[i], column_map), ParseRows(ls, column_map, i + 1))

ParseError ==
    [raised |-> TRUE, country |-> None, facilities |-> <<>>, src |-> <<>>]

\* parse_tsv_file without the `Could not detect data structure' error
parse_tsv_file_noraise(fobj) ==
    LET Dataset(rows) ==
            [raised |-> FALSE, country |-> find_country_name(fobj.lines),
             facilities |-> rows.facilities, src |-> rows.src]
        Data(ds) ==
            IF ~ds.found THEN Dataset([facilities |-> <<>>, src |-> <<>>])
            ELSE Dataset(ParseRows(fobj.lines, ds.column_map, ds.start + 1))
    IN  IF ~fobj.readable THEN ParseError
        ELSE Data(find_data_start(fobj.lines))

\* parse_tsv_file with a missing facility_type role made an error
parse_tsv_file_facility_required(fobj) ==
    LET Dataset(rows) ==
            [raised |-> FALSE, country |-> find_country_name(fobj.lines),
             facilities |-> rows.facilities, src |-> rows.src]
        Data(ds) ==
            IF ~ds.found \/ "facility_type" \notin DOMAIN ds.column_map
            THEN ParseError
            ELSE Dataset(ParseRows(fobj.lines, ds.column_map, ds.start + 1))
    IN  IF ~fobj.readable THEN ParseError
        ELSE Data(find_data_start(fobj.lines))

\* parse_tsv_file on the opened file fobj = [readable, lines]: the dataset, or raised = TRUE
\* when open/read fails or the data structure is not detected
parse_tsv_file(fobj) ==
    LET Dataset(rows) ==
            [raised |-> FALSE, country |-> find_country_name(fobj.lines),
             facilities |-> rows.facilities, src |-> rows.src]
        Data(ds) ==
            IF ~ds.found \/ DOMAIN ds.column_map = {} THEN ParseError
            ELSE Dataset(ParseRows(fobj.lines, ds.column_map, ds.start + 1))
    IN  IF ~fobj.readable THEN ParseError
        ELSE Data(find_data_start(fobj.lines))

----------------------------------------------------------------------------
(* Aggregation                                                              *)

\* dict semantics: the writes ws applied in order to the mapping m
RECURSIVE ApplyWrites(_, _)
ApplyWrites(m, ws) ==
    IF Len(ws) = 0 THEN m
    ELSE ApplyWrites((ws[1].key :> ws[1].value) @@ m, Tail(ws))

TotalKey(amount_type, code) == "IMFEOD.TOTAL." \o amount_type \o "." \o code \o ".M"

Column(facilities, field) == [i \in 1..Len(facilities) |-> facilities[i][field]]

\* the writes of one facility, one for each of amount_types in order: the
\* type holding 'AGREED' takes amount_agreed, 'DRAWN' amount_drawn,
\* 'OUTSTANDING' amount_outstanding
FacilityWrites(country, f) ==
    LET Amount(k) == IF k = 1 THEN f.amount_agreed
                     ELSE IF k = 2 THEN f.amount_drawn
                     ELSE f.amount_outstanding
    IN  [k \in 1..Len(amount_types) |->
            [key |-> generate_column_header(country, f.facility_type,
                                            f.arrangement_date, amount_types[k]),
             value |-> Amount(k)]]

RECURSIVE AllFacilityWrites(_, _)
AllFacilityWrites(country, facilities) ==
    IF Len(facilities) = 0 THEN <<>>
    ELSE FacilityWrites(country, Head(facilities))
             \o AllFacilityWrites(country, Tail(facilities))

\* the assignments generate_mapping_from_tsv makes, in program order
MappingWrites(data) ==
    LET code == country_codes[data.country.name]
    IN  << [key |-> TotalKey(amount_types[1], code),
            value |-> Sum(Column(data.facilities, "amount_agreed"))],
           [key |-> TotalKey(amount_types[2], code),
            value |-> Sum(Column(data.facilities, "amount_drawn"))],
           [key |-> TotalKey(amount_types[3], code),
            value |-> Sum(Column(data.facilities, "amount_outstanding"))] >>
        \o AllFacilityWrites(data.country.name, data.facilities)

\* generate_mapping_from_tsv: raised = TRUE is the KeyError of
\* self.country_codes[country] for a country that is None or not in the table
generate_mapping_from_tsv(data) ==
    LET Result(writes) ==
            [raised |-> FALSE, writes |-> writes,
             mappings |-> ApplyWrites(<<>>, writes)]
    IN  IF ~data.country.some \/ ~(data.country.name \in DOMAIN country_codes)
        THEN [raised |-> TRUE, writes |-> <<>>, mappings |-> <<>>]
        ELSE Result(MappingWrites(data))
----------------------------------------------------------------------------
(* Input files                                                              *)

MaxRows == 2

RECURSIVE SeqsUpTo(_, _)
SeqsUpTo(S, n) ==
    IF n = 0 THEN {<<>>}
    ELSE LET shorter == SeqsUpTo(S, n - 1)
         IN  shorter \cup {Append(q, x) : q \in shorter, x \in S}

\* the readable files: a title, a header line and at most MaxRows lines
TsvFiles ==
    LET
        \* text before the header: a title naming the country, or none
        Titles == { <<"I","r","e","l","a","n","d",":"," ","H","i","s","t","o","r","y"," ","o","f"," ","L","e","n","d","i","n","g"," ","C","o","m","m","i","t","m","e","n","t","s","\n">>,
                    <<"S","p","a","i","n",":"," ","H","i","s","t","o","r","y"," ","o","f"," ","L","e","n","d","i","n","g"," ","C","o","m","m","i","t","m","e","n","t","s","\n">>,
                    <<"L","e","n","d","i","n","g"," ","d","a","t","a","\n">> }
        \* header lines: the five columns in the site's order, the five columns
        \* reversed, two lines that are no header for find_data_start, a line
        \* with a keyword but no column name, and a line with two date columns
        \* and no facility column
        HeaderLines == {
            <<"F","a","c","i","l","i","t","y","\t","D","a","t","e"," ","o","f"," ","A","r","r","a","n","g","e","m","e","n","t","\t","A","m","o","u","n","t"," ","A","g","r","e","e","d","\t","A","m","o","u","n","t"," ","D","r","a","w","n","\t","A","m","o","u","n","t"," ","O","u","t","s","t","a","n","d","i","n","g","\n">>,
            <<"A","m","o","u","n","t"," ","O","u","t","s","t","a","n","d","i","n","g","\t","A","m","o","u","n","t"," ","D","r","a","w","n","\t","A","m","o","u","n","t"," ","A","g","r","e","e","d","\t","D","a","t","e"," ","o","f"," ","A","r","r","a","n","g","e","m","e","n","t","\t","F","a","c","i","l","i","t","y","\n">>,
            <<"D","a","t","e","\t","A","m","o","u","n","t","\n">>,
            <<"F","a","c","i","l","i","t","y","\n">>,
            <<"A","r","r","a","n","g","e","m","e","n","t","\t","N","o","t","e","s","\n">>,
            <<"A","r","r","a","n","g","e","m","e","n","t"," ","D","a","t","e","\t","E","f","f","e","c","t","i","v","e"," ","D","a","t","e","\t","A","m","o","u","n","t"," ","A","g","r","e","e","d","\n">> }
        DataLines == {
            <<"E","x","t","e","n","d","e","d"," ","F","u","n","d"," ","F","a","c","i","l","i","t","y","\t","D","e","c"," ","1","6",","," ","2","0","1","0","\t","1","0","0","\t","5","0","\t","5","0","\n">>,
            <<"T","o","t","a","l"," ","C","o","m","m","i","t","m","e","n","t","s","\t","D","e","c"," ","1","6",","," ","2","0","1","0","\t","1","0","0","\t","5","0","\t","5","0","\n">>,
            <<"-","5","\t","5","0","\t","1","0","0","\t","M","a","y"," ","9",","," ","2","0","1","0","\t","S","t","a","n","d","b","y"," ","A","r","r","a","n","g","e","m","e","n","t","\n">>,
            <<"E","x","t","e","n","d","e","d"," ","F","u","n","d"," ","F","a","c","i","l","i","t","y","\t","S","u","b","t","o","t","a","l","\t","7","\n">>,
            <<"5","0","\t","5","0","\t","1","0","0","\t","D","e","c"," ","1","6",","," ","2","0","1","0","\t","E","x","t","e","n","d","e","d"," ","F","u","n","d"," ","F","a","c","i","l","i","t","y","\n">>,
            <<"a","b","c","\t","5","0","\t","1","0","0","\t","D","e","c"," ","1","6",","," ","2","0","1","0","\t","E","x","t","e","n","d","e","d"," ","F","u","n","d"," ","F","a","c","i","l","i","t","y","\n">>,
            <<"1",",","2","3","4",".","5","0","\t"," ","\t","\t","M","a","y"," ","9",","," ","2","0","1","0","\t","S","t","a","n","d","b","y"," ","A","r","r","a","n","g","e","m","e","n","t","\n">>,
            <<"0","\t","0","\t","7","\t","\t","T","o","t","a","l","\n">>,
            <<"\n">> }
    IN  {[readable |-> TRUE, lines |-> <<t, h>> \o rows] :
            t \in Titles, h \in HeaderLines, rows \in SeqsUpTo(DataLines, MaxRows)}

Unreadable == [readable |-> FALSE, lines |-> <<>>]

----------------------------------------------------------------------------
(* Parsing and aggregating one file                                         *)

NoData == [raised |-> FALSE, country |-> None, facilities |-> <<>>, src |-> <<>>]
NoMapping == [raised |-> FALSE, writes |-> <<>>, mappings |-> <<>>]
NoFile == [readable |-> TRUE, lines |-> <<>>]

InitCommon ==
    /\ directory = <<>> /\ tsv_files = <<>> /\ file = NoFile
    /\ tsv_data = NoData /\ mappings = NoMapping /\ all_mappings = <<>>
    /\ extracted_dates = <<>> /\ file_idx = 0 /\ read_log = <<>>
    /\ write_log = <<>> /\ output = <<>> /\ data_row = <<>>
    /\ ScraperIdle /\ PipelineIdle

InitParse == pc = "start" /\ InitCommon

\* tsv_data = self.parse_tsv_file(file_path) on some file
Parse ==
    /\ pc = "start"
    /\ \E f \in TsvFiles \cup {Unreadable} :
          /\ file' = f
          /\ tsv_data' = parse_tsv_file(f)
    /\ pc' = IF tsv_data'.raised THEN "parse_error" ELSE "parsed"
    /\ UNCHANGED <<scraper_vars, pipeline_vars, directory, tsv_files, mappings, all_mappings,
                   extracted_dates, file_idx, read_log, write_log, output, data_row>>

\* country_mappings = self.generate_mapping_from_tsv(tsv_data)
Aggregate ==
    /\ pc = "parsed"
    /\ mappings' = generate_mapping_from_tsv(tsv_data)
    /\ pc' = IF mappings'.raised THEN "mapping_error" ELSE "mapped"
    /\ UNCHANGED <<scraper_vars, pipeline_vars, directory, tsv_files, file, tsv_data, all_mappings,
                   extracted_dates, file_idx, read_log, write_log, output, data_row>>

NextParse == Parse \/ Aggregate
SpecParse == InitParse /\ [][NextParse]_vars

----------------------------------------------------------------------------
(* Source file locator                                                      *)

\* os.path.join(root, filename) and os.path.basename(path)
join(root, filename) == root \o <<"/">> \o filename
basename(path) ==
    LET slashes == {i \in 1..Len(path) : path[i] = "/"}
    IN  IF slashes = {} THEN path ELSE SubSeq(path, Max(slashes) + 1, Len(path))

\* the three prefixes tried for a country: as written, lower, upper
NamePrefixes(country) ==
    << country \o <<"_">>, lower(country) \o <<"_">>, upper(country) \o <<"_">> >>

\* found_files for one country: the entries of the walk whose file name
\* starts with one of the prefixes, in walk order
FoundFiles(dir, country) ==
    SelectSeq(dir, LAMBDA e :
        \E p \in Range(NamePrefixes(country)) : startswith(e.name, p))

\* the entry of minimal mtime instead of the maximal one
LatestFile_oldest(found) ==
    found[Min({i \in 1..Len(found) :
                  \A j \in 1..Len(found) : found[i].mtime <= found[j].mtime})]

\* max(found_files, key=os.path.getmtime): the first entry of maximal mtime
LatestFile(found) ==
    found[Min({i \in 1..Len(found) :
                  \A j \in 1..Len(found) : found[i].mtime >= found[j].mtime})]

\* find_country_files: country -> path of its latest file; a country
\* without a matching file has no entry
find_country_files(dir) ==
    [c \in {c \in Range(Countries) : Len(FoundFiles(dir, c)) > 0} |->
        LET latest_file == LatestFile(FoundFiles(dir, c))
        IN  join(latest_file.root, latest_file.name)]

\* the located countries in the order the dict yields them
Located(files) == SelectSeq(Countries, LAMBDA c : c \in DOMAIN files)

----------------------------------------------------------------------------
(* Date of a file name                                                      *)

\* date_patterns of extract_date_from_filename; d stands for \d
date_patterns == << <<"d","d","d","d","-","d","d","-","d","d">>, <<"d","d","d","d","d","d","d","d">>, <<"d","d","-","d","d","-","d","d","d","d">>, <<"d","d","/","d","d","/","d","d","d","d">>,
                    <<"d","d","d","d","_","d","d","_","d","d">> >>

TemplateAt(t, s, i) ==
    /\ i + Len(t) <= Len(s)
    /\ \A j \in 1..Len(t) :
          IF t[j] = "d" THEN IsDigit(s[i + j]) ELSE s[i + j] = t[j]

\* re.findall(pattern, s)[0]: the leftmost match, or found = FALSE
FirstMatch(t, s) ==
    LET At(i) == [found |-> TRUE, text |-> SubSeq(s, i + 1, i + Len(t))]
        First(at) == IF at = {} THEN [found |-> FALSE, text |-> <<>>]
                     ELSE At(Min(at))
    IN  First({i \in 0..(Len(s) - Len(t)) : TemplateAt(t, s, i)})

unknown == <<"u","n","k","n","o","w","n">>

\* the if/elif chain that turns the matched text into YYYY-MM
DateToYearMonth(date_str) ==
    IF TemplateAt(date_patterns[1], date_str, 0) THEN SubSeq(date_str, 1, 7)
    ELSE IF TemplateAt(date_patterns[2], date_str, 0)
    THEN SubSeq(date_str, 1, 4) \o <<"-">> \o SubSeq(date_str, 5, 6)
    ELSE IF TemplateAt(date_patterns[3], date_str, 0)
    THEN split(date_str, "-")[3] \o <<"-">> \o split(date_str, "-")[2]
    ELSE IF TemplateAt(date_patterns[4], date_str, 0)
    THEN split(date_str, "/")[3] \o <<"-">> \o split(date_str, "/")[2]
    ELSE IF TemplateAt(date_patterns[5], date_str, 0)
    THEN replace_chr(SubSeq(date_str, 1, 7), "_", "-")
    ELSE unknown

RECURSIVE ExtractFrom(_, _)
ExtractFrom(base_filename, k) ==
    LET Take(m) == IF m.found THEN DateToYearMonth(m.text)
                   ELSE ExtractFrom(base_filename, k + 1)
    IN  IF k > Len(date_patterns) THEN unknown
        ELSE Take(FirstMatch(date_patterns[k], base_filename))

extract_date_from_filename(filename) == ExtractFrom(basename(filename), 1)

\* str comparison: code points of the characters a date text can hold
Ord(c) == IF c = "-" THEN 45 ELSE 48 + DigitVal(c)
StrLess(a, b) ==
    \/ \E i \in 1..Len(a) :
          /\ i <= Len(b) /\ Ord(a[i]) < Ord(b[i])
          /\ \A j \in 1..(i - 1) : a[j] = b[j]
    \/ Len(a) < Len(b) /\ \A j \in 1..Len(a) : a[j] = b[j]

----------------------------------------------------------------------------
(* process_all_countries                                                    *)

\* a merge in which the entries already present win
update_keep_existing(d, other) == d @@ other

\* dict.update: the entries of other replace or extend those of d
update(d, other) == other @@ d

\* the loop body without the try/except: an error leaves the loop
ProcessOne_no_except(acc, dates, country, path, fobj) ==
    LET Outcome(failed, data, country_mappings) ==
            [all_mappings |-> IF failed THEN acc
                              ELSE update(acc, country_mappings.mappings),
             extracted_dates |->
                 (country :> extract_date_from_filename(path)) @@ dates,
             tsv_data |-> data,
             writes |-> IF failed THEN <<>> ELSE country_mappings.writes,
             raised_out |-> failed]
        WithMappings(data, country_mappings) ==
            Outcome(country_mappings.raised, data, country_mappings)
        WithData(data) ==
            IF data.raised THEN Outcome(TRUE, data, NoMapping)
            ELSE WithMappings(data, generate_mapping_from_tsv(data))
    IN  WithData(parse_tsv_file(fobj))

\* the loop body with the country of the located file name in the place of
\* the country found in the text
ProcessOne_locator_country(acc, dates, country, path, fobj) ==
    LET Outcome(failed, data, country_mappings) ==
            [all_mappings |-> IF failed THEN acc
                              ELSE update(acc, country_mappings.mappings),
             extracted_dates |->
                 (country :> extract_date_from_filename(path)) @@ dates,
             tsv_data |-> data,
             writes |-> IF failed THEN <<>> ELSE country_mappings.writes,
             raised_out |-> FALSE]
        WithMappings(data, country_mappings) ==
            Outcome(country_mappings.raised, data, country_mappings)
        WithData(data) ==
            IF data.raised THEN Outcome(TRUE, data, NoMapping)
            ELSE WithMappings(data, generate_mapping_from_tsv([data EXCEPT !.country = Some(country)]))
    IN  WithData(parse_tsv_file(fobj))

\* one iteration of the loop of process_all_countries, for the file fobj
\* found at path: the date is recorded first, then the file is parsed and
\* aggregated inside the try block; an error there is logged and the loop
\* goes on (raised_out stays FALSE).  tsv_data and writes report the
\* dataset and the assignments of the iteration.
ProcessOne(acc, dates, country, path, fobj) ==
    LET Outcome(failed, data, country_mappings) ==
            [all_mappings |-> IF failed THEN acc
                              ELSE update(acc, country_mappings.mappings),
             extracted_dates |->
                 (country :> extract_date_from_filename(path)) @@ dates,
             tsv_data |-> data,
             writes |-> IF failed THEN <<>> ELSE country_mappings.writes,
             raised_out |-> FALSE]
        WithMappings(data, country_mappings) ==
            Outcome(country_mappings.raised, data, country_mappings)
        WithData(data) ==
            IF data.raised THEN Outcome(TRUE, data, NoMapping)
            ELSE WithMappings(data, generate_mapping_from_tsv(data))
    IN  WithData(parse_tsv_file(fobj))

----------------------------------------------------------------------------
(* Projection and export                                                    *)

HARDCODED_DESCRIPTIVE_HEADERS == <<
    "IMF Lending Commitments, Extended Fund Facility 16 December 2010, Amount Agreed, Ireland",
    "IMF Lending Commitments, Extended Fund Facility 16 December 2010, Amount Drawn, Ireland",
    "IMF Lending Commitments, Extended Fund Facility 16 December 2010, Amount Outstanding, Ireland",
    "IMF Lending Commitments, Total, Amount Agreed, Ireland",
    "IMF Lending Commitments, Total, Amount Drawn, Ireland",
    "IMF Lending Commitments, Total, Amount Outstanding, Ireland",
    "IMF Lending Commitments, Extended Fund Facility 15 March 2012, Amount Agreed, Greece",
    "IMF Lending Commitments, Extended Fund Facility 15 March 2012, Amount Drawn, Greece",
    "IMF Lending Commitments, Extended Fund Facility 15 March 2012, Amount Outstanding, Greece",
    "IMF Lending Commitments, Standby Arrangement 09 May 2010, Amount Agreed, Greece",
    "IMF Lending Commitments, Standby Arrangement 09 May 2010, Amount Drawn, Greece",
    "IMF Lending Commitments, Standby Arrangement 09 May 2010, Amount Outstanding, Greece",
    "IMF Lending Commitments, Total, Amount Agreed, Greece",
    "IMF Lending Commitments, Total, Amount Drawn, Greece",
    "IMF Lending Commitments, Total, Amount Outstanding, Greece",
    "IMF Lending Commitments, Extended Fund Facility 20 May 2011, Amount Agreed, Portugal",
    "IMF Lending Commitments, Extended Fund Facility 20 May 2011, Amount Drawn, Portugal",
    "IMF Lending Commitments, Extended Fund Facility 20 May 2011, Amount Outstanding, Portugal",
    "IMF Lending Commitments, Standby Arrangement 07 October 1983, Amount Agreed, Portugal",
    "IMF Lending Commitments, Standby Arrangement 07 October 1983, Amount Drawn, Portugal",
    "IMF Lending Commitments, Standby Arrangement 07 October 1983, Amount Outstanding, Portugal",
    "IMF Lending Commitments, Standby Arrangement 05 June 1978, Amount Agreed, Portugal",
    "IMF Lending Commitments, Standby Arrangement 05 June 1978, Amount Drawn, Portugal",
    "IMF Lending Commitments, Standby Arrangement 05 June 1978, Amount Outstanding, Portugal",
    "IMF Lending Commitments, Standby Arrangement 25 April 1977, Amount Agreed, Portugal",
    "IMF Lending Commitments, Standby Arrangement 25 April 1977, Amount Drawn, Portugal",
    "IMF Lending Commitments, Standby Arrangement 25 April 1977, Amount Outstanding, Portugal",
    "IMF Lending Commitments, Total, Amount Agreed, Portugal",
    "IMF Lending Commitments, Total, Amount Drawn, Portugal",
    "IMF Lending Commitments, Total, Amount Outstanding, Portugal" >>

\* the projection that does not skip the first (date) header
create_excel_row_with_date_column(date_value, m) ==
    [j \in 1..Len(HARDCODED_COLUMN_HEADERS) |->
        IF HARDCODED_COLUMN_HEADERS[j] \in DOMAIN m
        THEN m[HARDCODED_COLUMN_HEADERS[j]] ELSE Zero]

\* a projection that goes on appending to the row of the call before
create_excel_row_appending(date_value, m) ==
    output \o [j \in 1..(Len(HARDCODED_COLUMN_HEADERS) - 1) |->
                  IF HARDCODED_COLUMN_HEADERS[j + 1] \in DOMAIN m
                  THEN m[HARDCODED_COLUMN_HEADERS[j + 1]] ELSE Zero]

\* create_excel_row_from_hardcoded_headers: mappings.get(header, 0) for
\* every header but the first
create_excel_row_from_hardcoded_headers(date_value, m) ==
    [j \in 1..(Len(HARDCODED_COLUMN_HEADERS) - 1) |->
        IF HARDCODED_COLUMN_HEADERS[j + 1] \in DOMAIN m
        THEN m[HARDCODED_COLUMN_HEADERS[j + 1]] ELSE Zero]

\* a fit that pads a short row but leaves a long one as it is
FitLength_pad_only(row, n) ==
    IF Len(row) < n
    THEN row \o [j \in 1..(n - Len(row)) |-> Zero]
    ELSE row

\* the pad-or-trim of export_to_excel
FitLength(row, n) ==
    IF Len(row) < n
    THEN row \o [j \in 1..(n - Len(row)) |-> Zero]
    ELSE SubSeq(row, 1, n)

\* export_to_excel from the projected values on: the three rows handed to
\* the writer
ExportRows(values, output_file, date_value) ==
    LET Rows(fitted) ==
            [output_file |-> output_file,
             rows |-> << HARDCODED_COLUMN_HEADERS,
                         <<"">> \o HARDCODED_DESCRIPTIVE_HEADERS,
                         <<Str(date_value)>> \o fitted >>]
    IN  Rows(FitLength(values, Len(HARDCODED_DESCRIPTIVE_HEADERS)))

export_to_excel(m, output_file, date_value) ==
    ExportRows(create_excel_row_from_hardcoded_headers(date_value, m),
               output_file, date_value)

----------------------------------------------------------------------------
(* main                                                                     *)

\* valid_dates of main, in the order of extracted_dates
ValidDates(dates) ==
    SelectSeq([i \in 1..Len(Located(dates)) |-> dates[Located(dates)[i]]],
              LAMBDA d : d # unknown)

\* the first valid date instead of the greatest one
MaxDate_first(ds) == ds[1]

\* max(valid_dates) under str comparison
MaxDate(ds) == CHOOSE d \in Range(ds) : \A o \in Range(ds) : ~StrLess(d, o)

\* a date selection that gives up as soon as one file name has no date
SelectDate_all_valid(dates) ==
    IF Len(ValidDates(dates)) < Len(Located(dates)) THEN None
    ELSE Some(MaxDate(ValidDates(dates)))

\* date_value of main: None when no file name gave a date
SelectDate(dates) ==
    IF Len(ValidDates(dates)) = 0 THEN None ELSE Some(MaxDate(ValidDates(dates)))

OutputFilename(date_value) ==
    "IMFEOD_DATA_" \o Str(replace_del(date_value, "-")) \o "_OUTPUT.xlsx"

----------------------------------------------------------------------------
(* The locator on its own (SpecLocate)                                      *)

MaxFiles == 2
MaxMtime == 2

\* the directory trees os.walk can list: at most MaxFiles files, each under
\* one of two roots, with a name and a modification time
Directories ==
    LET Roots == { <<".">>, <<".","/","s","u","b">> }
        FileNames == { <<"I","r","e","l","a","n","d","_","d","a","t","a","_","2","0","2","4","-","0","1","-","0","5",".","t","s","v">>, <<"I","r","e","l","a","n","d","_","d","a","t","a","_","2","0","2","4","-","0","3","-","0","1",".","t","s","v">>,
                       <<"i","r","e","l","a","n","d","_","x">>, <<"G","R","E","E","C","E","_","x">>, <<"I","r","e","l","a","n","d","x">>, <<"I","r","E","L","A","N","D","_","x">>,
                       <<"P","o","r","t","u","g","a","l","_","x">> }
        Entries == [root : Roots, name : FileNames, mtime : 1..MaxMtime]
        \* a directory tree holds at most one file per path
        DistinctPaths(dir) ==
            \A i, j \in 1..Len(dir) :
                (dir[i].root = dir[j].root /\ dir[i].name = dir[j].name) => i = j
    IN  {d \in SeqsUpTo(Entries, MaxFiles) : DistinctPaths(d)}

InitLocate ==
    /\ pc = "start"
    /\ directory \in Directories
    /\ tsv_files = <<>> /\ file = NoFile
    /\ tsv_data = NoData /\ mappings = NoMapping /\ all_mappings = <<>>
    /\ extracted_dates = <<>> /\ file_idx = 0 /\ read_log = <<>>
    /\ write_log = <<>> /\ output = <<>> /\ data_row = <<>>
    /\ ScraperIdle /\ PipelineIdle

\* tsv_files = mapper.find_country_files('.')
FindCountryFiles ==
    /\ pc = "start"
    /\ tsv_files' = find_country_files(directory)
    /\ pc' = IF DOMAIN tsv_files' = {} THEN "no_files" ELSE "located"
    /\ UNCHANGED <<scraper_vars, pipeline_vars, directory, file, tsv_data, mappings, all_mappings,
                   extracted_dates, file_idx, read_log, write_log, output, data_row>>

NextLocate == FindCountryFiles
SpecLocate == InitLocate /\ [][NextLocate]_vars

----------------------------------------------------------------------------
(* The projection on its own (SpecProject)                                  *)

SchemaKeys == {HARDCODED_COLUMN_HEADERS[j] : j \in 2..Len(HARDCODED_COLUMN_HEADERS)}
SampleValues == {Dec(100, 0), Dec(12345, 1)}

\* mappings holding one schema key, alone or beside keys outside the
\* schema or a second schema key, and the empty mapping
ProjectInputs ==
    LET OtherKeys == {"IMFEOD.EXTFUNDFACILITY.AMOUNTAGREED.IRL.M",
                      "IMFEOD.TOTAL.AMOUNTAGREED.ESP.M"}
    IN  {<<>>}
        \cup {(k :> v) : k \in SchemaKeys, v \in SampleValues}
        \cup {(k :> v) @@ (o :> w) : k \in SchemaKeys, v \in SampleValues,
                                      o \in OtherKeys \cup {HARDCODED_COLUMN_HEADERS[5]},
                                      w \in {Dec(7, 0)}}

InitProject ==
    /\ pc = "start"
    /\ all_mappings \in ProjectInputs
    /\ directory = <<>> /\ tsv_files = <<>> /\ file = NoFile
    /\ tsv_data = NoData /\ mappings = NoMapping
    /\ extracted_dates = <<>> /\ file_idx = 0 /\ read_log = <<>>
    /\ write_log = <<>> /\ output = <<>> /\ data_row = <<>>
    /\ ScraperIdle /\ PipelineIdle

\* data_row = self.create_excel_row_from_hardcoded_headers(date_value, mappings)
Project ==
    /\ pc = "start"
    /\ \E date_value \in { <<"2","0","2","4","-","0","3">> } :
          output' = create_excel_row_from_hardcoded_headers(date_value, all_mappings)
    /\ pc' = "projected"
    /\ UNCHANGED <<scraper_vars, pipeline_vars, directory, tsv_files, file, tsv_data, mappings, all_mappings,
                   extracted_dates, file_idx, read_log, write_log, data_row>>

\* the same call once more, on the same mappings
ProjectAgain ==
    /\ pc = "projected"
    /\ \E date_value \in { <<"2","0","2","4","-","0","3">> } :
          data_row' = create_excel_row_from_hardcoded_headers(date_value, all_mappings)
    /\ pc' = "projected_twice"
    /\ UNCHANGED <<scraper_vars, pipeline_vars, directory, tsv_files, file, tsv_data, mappings, all_mappings,
                   extracted_dates, file_idx, read_log, write_log, output>>

NextProject == Project \/ ProjectAgain
SpecProject == InitProject /\ [][NextProject]_vars

----------------------------------------------------------------------------
(* The export from the projected values on (SpecExport)                     *)

MaxCells == 40

\* rows of values of every length up to MaxCells: all zero, all the same
\* amount, or cell j holding j
ExportInputs ==
    {[j \in 1..n |-> Zero] : n \in 0..MaxCells}
    \cup {[j \in 1..n |-> Dec(12345, 1)] : n \in 0..MaxCells}
    \cup {[j \in 1..n |-> Dec(j, 0)] : n \in 0..MaxCells}

InitExport ==
    /\ pc = "start"
    /\ data_row \in ExportInputs
    /\ directory = <<>> /\ tsv_files = <<>> /\ file = NoFile
    /\ tsv_data = NoData /\ mappings = NoMapping /\ all_mappings = <<>>
    /\ extracted_dates = <<>> /\ file_idx = 0 /\ read_log = <<>>
    /\ write_log = <<>> /\ output = <<>>
    /\ ScraperIdle /\ PipelineIdle

\* export_to_excel after data_row was computed: the length check, the
\* three rows and the write
Export ==
    /\ pc = "start"
    /\ \E date_value \in { <<"2","0","2","4","-","0","3">> } :
          output' = ExportRows(data_row, OutputFilename(date_value), date_value)
    /\ pc' = "exported"
    /\ UNCHANGED <<scraper_vars, pipeline_vars, directory, tsv_files, file, tsv_data, mappings, all_mappings,
                   extracted_dates, file_idx, read_log, write_log, data_row>>

NextExport == Export
SpecExport == InitExport /\ [][NextExport]_vars

----------------------------------------------------------------------------
(* The top-level run: main of map.py (Spec)                                 *)

ReversedHeader ==
    <<"A","m","o","u","n","t"," ","O","u","t","s","t","a","n","d","i","n","g","\t","A","m","o","u","n","t"," ","D","r","a","w","n","\t","A","m","o","u","n","t"," ","A","g","r","e","e","d","\t","D","a","t","e"," ","o","f"," ","A","r","r","a","n","g","e","m","e","n","t","\t","F","a","c","i","l","i","t","y","\n">>

\* a file that names its country on line 21, after twenty empty lines
LateTitleFile ==
    [readable |-> TRUE,
     lines |-> [i \in 1..20 |-> <<"\n">>]
                   \o << <<"I","r","e","l","a","n","d",":"," ","H","i","s","t","o","r","y"," ","o","f"," ","L","e","n","d","i","n","g"," ","C","o","m","m","i","t","m","e","n","t","s","\n">>, ReversedHeader,
                         <<"5","0","\t","5","0","\t","1","0","0","\t","D","e","c"," ","1","6",","," ","2","0","1","0","\t","E","x","t","e","n","d","e","d"," ","F","u","n","d"," ","F","a","c","i","l","i","t","y","\n">> >>]

\* the files a run can read: two well-formed ones, one whose facility is
\* listed twice, one without header line, one without country, one whose
\* country comes after line 20, one that cannot be read
RunFiles == {
    LateTitleFile,
    [readable |-> TRUE,
     lines |-> << <<"I","r","e","l","a","n","d",":"," ","H","i","s","t","o","r","y"," ","o","f"," ","L","e","n","d","i","n","g"," ","C","o","m","m","i","t","m","e","n","t","s","\n">>, ReversedHeader,
                  <<"5","0","\t","5","0","\t","1","0","0","\t","D","e","c"," ","1","6",","," ","2","0","1","0","\t","E","x","t","e","n","d","e","d"," ","F","u","n","d"," ","F","a","c","i","l","i","t","y","\n">> >>],
    [readable |-> TRUE,
     lines |-> << <<"G","r","e","e","c","e",":"," ","H","i","s","t","o","r","y"," ","o","f"," ","L","e","n","d","i","n","g"," ","C","o","m","m","i","t","m","e","n","t","s","\n">>, ReversedHeader,
                  <<"0","\t","2","0","\t","3","0","\t","M","a","y"," ","9",","," ","2","0","1","0","\t","S","t","a","n","d","b","y"," ","A","r","r","a","n","g","e","m","e","n","t","\n">> >>],
    [readable |-> TRUE,
     lines |-> << <<"I","r","e","l","a","n","d",":"," ","H","i","s","t","o","r","y"," ","o","f"," ","L","e","n","d","i","n","g"," ","C","o","m","m","i","t","m","e","n","t","s","\n">>, ReversedHeader,
                  <<"5","0","\t","5","0","\t","1","0","0","\t","D","e","c"," ","1","6",","," ","2","0","1","0","\t","E","x","t","e","n","d","e","d"," ","F","u","n","d"," ","F","a","c","i","l","i","t","y","\n">>,
                  <<"1","\t","2","\t","3","\t","D","e","c"," ","1","6",","," ","2","0","1","0","\t","E","x","t","e","n","d","e","d"," ","F","u","n","d"," ","F","a","c","i","l","i","t","y","\n">> >>],
    [readable |-> TRUE,
     lines |-> << <<"I","r","e","l","a","n","d",":"," ","H","i","s","t","o","r","y"," ","o","f"," ","L","e","n","d","i","n","g"," ","C","o","m","m","i","t","m","e","n","t","s","\n">>, <<"F","a","c","i","l","i","t","y","\n">>,
                  <<"5","0","\t","5","0","\t","1","0","0","\n">> >>],
    [readable |-> TRUE,
     lines |-> << <<"L","e","n","d","i","n","g"," ","d","a","t","a","\n">>, ReversedHeader,
                  <<"5","0","\t","5","0","\t","1","0","0","\t","D","e","c"," ","1","6",","," ","2","0","1","0","\t","E","x","t","e","n","d","e","d"," ","F","u","n","d"," ","F","a","c","i","l","i","t","y","\n">> >>],
    Unreadable }

RunEntry(name, mtime) == [root |-> <<".">>, name |-> name, mtime |-> mtime]

\* the directories of a run: for each country no file, or one file whose
\* name carries a date, in one of several formats, or does not; the walk
\* meets Portugal's file first and Greece's last, and Greece's file is the
\* oldest
RunDirectories ==
    {p \o i \o g :
        i \in {<<>>, <<RunEntry(<<"I","r","e","l","a","n","d","_","x","_","2","0","2","4","-","0","3","-","0","1",".","t","s","v">>, 2)>>,
               <<RunEntry(<<"I","r","e","l","a","n","d","_","x",".","t","s","v">>, 2)>>},
        g \in {<<>>, <<RunEntry(<<"G","r","e","e","c","e","_","x","_","2","0","2","4","0","1","0","5",".","t","s","v">>, 1)>>},
        p \in {<<>>, <<RunEntry(<<"P","o","r","t","u","g","a","l","_","x",".","t","s","v">>, 3)>>,
               <<RunEntry(<<"P","o","r","t","u","g","a","l","_","0","5","-","0","4","-","2","0","2","4",".","t","s","v">>, 3)>>,
               <<RunEntry(<<"P","o","r","t","u","g","a","l","_","2","0","2","3","_","1","2","_","3","1",".","t","s","v">>, 3)>>}}

Init ==
    /\ pc = "start"
    /\ directory \in RunDirectories
    /\ tsv_files = <<>> /\ file = NoFile
    /\ tsv_data = NoData /\ mappings = NoMapping /\ all_mappings = <<>>
    /\ extracted_dates = <<>> /\ file_idx = 0 /\ read_log = <<>>
    /\ write_log = <<>> /\ output = <<>> /\ data_row = <<>>
    /\ ScraperIdle /\ PipelineIdle

\* one iteration of `for country, file_path in tsv_files.items()'; the text
\* read from the path is an input of the step
ProcessFile ==
    /\ pc = "located"
    /\ file_idx < Len(Located(tsv_files))
    /\ LET Step(country, fobj, r) ==
               /\ all_mappings' = r.all_mappings
               /\ extracted_dates' = r.extracted_dates
               /\ write_log' = write_log \o r.writes
               /\ read_log' = Append(read_log, [country |-> country, fobj |-> fobj,
                                              tsv_data |-> r.tsv_data,
                                              writes |-> r.writes])
               /\ pc' = IF r.raised_out THEN "crashed" ELSE "located"
           Iteration(country) ==
               \E fobj \in RunFiles :
                   Step(country, fobj,
                        ProcessOne(all_mappings, extracted_dates, country,
                                   tsv_files[country], fobj))
       IN  Iteration(Located(tsv_files)[file_idx + 1])
    /\ file_idx' = file_idx + 1
    /\ UNCHANGED <<scraper_vars, pipeline_vars, directory, tsv_files, file, tsv_data, mappings, output,
                   data_row>>

\* the rest of main after process_all_countries returned: the date is
\* selected and the output written, or main returns without output
Finish ==
    /\ pc = "located"
    /\ file_idx = Len(Located(tsv_files))
    /\ LET Output(date_value) ==
               IF date_value.some
               THEN /\ output' = export_to_excel(all_mappings,
                                                 OutputFilename(date_value.name),
                                                 date_value.name)
                    /\ pc' = "exported"
               ELSE /\ output' = output
                    /\ pc' = "no_date"
       IN  Output(SelectDate(extracted_dates))
    /\ UNCHANGED <<scraper_vars, pipeline_vars, directory, tsv_files, file, tsv_data, mappings, all_mappings,
                   extracted_dates, file_idx, read_log, write_log, data_row>>

Next == FindCountryFiles \/ ProcessFile \/ Finish
Spec == Init /\ [][Next]_vars

----------------------------------------------------------------------------
(* The row loop of parse_tsv_file on irregular lines (SpecRows)             *)

MaxRowLines == 3

\* a title, a header with the facility column first or last, and at most
\* MaxRowLines lines
RowFiles ==
    LET StandardHeader ==
            <<"F","a","c","i","l","i","t","y","\t","D","a","t","e"," ","o","f"," ","A","r","r","a","n","g","e","m","e","n","t","\t","A","m","o","u","n","t"," ","A","g","r","e","e","d","\t","A","m","o","u","n","t"," ","D","r","a","w","n","\t","A","m","o","u","n","t"," ","O","u","t","s","t","a","n","d","i","n","g","\n">>
        \* lines after the header: a row in the reversed column order, a row in
        \* the standard order, a row that starts with a tab, a row with text in an
        \* amount column, a row of two cells, a line of one field, a summary row
        RowLines == {
            <<"5","0","\t","5","0","\t","1","0","0","\t","D","e","c"," ","1","6",","," ","2","0","1","0","\t","E","x","t","e","n","d","e","d"," ","F","u","n","d"," ","F","a","c","i","l","i","t","y","\n">>,
            <<"S","t","a","n","d","b","y"," ","A","r","r","a","n","g","e","m","e","n","t","\t","M","a","y"," ","9",","," ","2","0","1","0","\t","7","\t","5","\t","5","\n">>,
            <<"\t","D","e","c"," ","1","6",","," ","2","0","1","0","\t","1","0","0","\t","5","0","\t","5","0","\n">>,
            <<"a","b","c","\t","5","0","\t","1","0","0","\t","D","e","c"," ","1","6",","," ","2","0","1","0","\t","E","x","t","e","n","d","e","d"," ","F","u","n","d"," ","F","a","c","i","l","i","t","y","\n">>,
            <<"5","0","\t","5","0","\n">>,
            <<"N","o","t","e","s","\n">>,
            <<"T","o","t","a","l","\t","1","0","0","\t","5","0","\n">> }
    IN  {[readable |-> TRUE,
          lines |-> << <<"I","r","e","l","a","n","d",":"," ","H","i","s","t","o","r","y"," ","o","f"," ","L","e","n","d","i","n","g"," ","C","o","m","m","i","t","m","e","n","t","s","\n">>, h >> \o rows] :
            h \in {StandardHeader, ReversedHeader},
            rows \in SeqsUpTo(RowLines, MaxRowLines)}

InitRows == pc = "start" /\ InitCommon

\* tsv_data = self.parse_tsv_file(file_path) on one of the files
ParseLines ==
    /\ pc = "start"
    /\ \E f \in RowFiles :
          /\ file' = f
          /\ tsv_data' = parse_tsv_file(f)
    /\ pc' = IF tsv_data'.raised THEN "parse_error" ELSE "parsed"
    /\ UNCHANGED <<scraper_vars, pipeline_vars, directory, tsv_files, mappings, all_mappings,
                   extracted_dates, file_idx, read_log, write_log, output, data_row>>

NextRows == ParseLines
SpecRows == InitRows /\ [][NextRows]_vars

----------------------------------------------------------------------------
(* The keys derived from facility and date texts (SpecKeys)                 *)

MaxKeyRows == 1

\* a country title with at most MaxKeyRows rows, or a variant title with
\* one row
KeyFiles ==
    LET
        \* facility phrases: the two known ones, one in another letter case, one
        \* with a hyphen, one with two blanks, and the word of the summary keys
        FacilityPhrases == { <<"E","x","t","e","n","d","e","d"," ","F","u","n","d"," ","F","a","c","i","l","i","t","y">>, <<"S","t","a","n","d","b","y"," ","A","r","r","a","n","g","e","m","e","n","t">>,
                             <<"e","x","t","e","n","d","e","d"," ","f","u","n","d"," ","f","a","c","i","l","i","t","y">>, <<"S","t","a","n","d","-","B","y"," ","A","r","r","a","n","g","e","m","e","n","t">>,
                             <<"E","x","t","e","n","d","e","d"," "," ","F","u","n","d"," ","F","a","c","i","l","i","t","y">>, <<"T","o","t","a","l">> }

        \* date texts: the site's format with a two-digit and a one-digit day, the
        \* same in lower case with a padded day and two blanks, a year before 1000,
        \* no blank after the comma, a full month name, a day the month has not,
        \* an ISO date, and no date
        DateTexts == { <<"D","e","c"," ","1","6",","," ","2","0","1","0">>, <<"M","a","y"," ","9",","," ","2","0","1","0">>, <<"d","e","c"," ","0","6",","," "," ","2","0","1","0">>,
                       <<"D","e","c"," ","1","6",","," ","0","9","9","9">>, <<"D","e","c"," ","1","6",",","2","0","1","0">>, <<"D","e","c","e","m","b","e","r"," ","1","6",","," ","2","0","1","0">>,
                       <<"F","e","b"," ","3","0",","," ","2","0","1","0">>, <<"2","0","1","0","-","1","2","-","1","6">>, <<>> }

        \* a row in the reversed column order with the given date and facility
        KeyRows ==
            { <<"5","0","\t","5","0","\t","1","0","0","\t">> \o d \o <<"\t">> \o f \o <<"\n">> :
                  d \in DateTexts, f \in FacilityPhrases }

        CountryTitles == { <<"I","r","e","l","a","n","d",":"," ","H","i","s","t","o","r","y"," ","o","f"," ","L","e","n","d","i","n","g"," ","C","o","m","m","i","t","m","e","n","t","s","\n">>,
                           <<"G","r","e","e","c","e",":"," ","H","i","s","t","o","r","y"," ","o","f"," ","L","e","n","d","i","n","g"," ","C","o","m","m","i","t","m","e","n","t","s","\n">>,
                           <<"P","o","r","t","u","g","a","l",":"," ","H","i","s","t","o","r","y"," ","o","f"," ","L","e","n","d","i","n","g"," ","C","o","m","m","i","t","m","e","n","t","s","\n">> }

        \* titles that name a country by a variant of country_name_mappings
        VariantTitles == { <<"i","r","e","l","a","n","d",":"," ","H","i","s","t","o","r","y"," ","o","f"," ","L","e","n","d","i","n","g"," ","C","o","m","m","i","t","m","e","n","t","s","\n">>,
                           <<"R","e","p","u","b","l","i","c"," ","o","f"," ","I","r","e","l","a","n","d",":"," ","H","i","s","t","o","r","y"," ","o","f"," ","L","e","n","d","i","n","g"," ","C","o","m","m","i","t","m","e","n","t","s","\n">>,
                           <<"H","e","l","l","e","n","i","c"," ","R","e","p","u","b","l","i","c",":"," ","H","i","s","t","o","r","y"," ","o","f"," ","L","e","n","d","i","n","g"," ","C","o","m","m","i","t","m","e","n","t","s","\n">>,
                           <<"p","o","r","t","u","g","u","e","s","e",":"," ","H","i","s","t","o","r","y"," ","o","f"," ","L","e","n","d","i","n","g"," ","C","o","m","m","i","t","m","e","n","t","s","\n">> }
    IN  {[readable |-> TRUE, lines |-> <<t, ReversedHeader>> \o rows] :
            t \in CountryTitles, rows \in SeqsUpTo(KeyRows, MaxKeyRows)}
        \cup
        {[readable |-> TRUE,
          lines |-> <<t, ReversedHeader,
                      <<"5","0","\t","5","0","\t","1","0","0","\t","D","e","c"," ","1","6",","," ","2","0","1","0","\t","E","x","t","e","n","d","e","d"," ","F","u","n","d"," ","F","a","c","i","l","i","t","y","\n">> >>] :
            t \in VariantTitles}

InitKeys == pc = "start" /\ InitCommon

\* tsv_data = self.parse_tsv_file(file_path) on one of the files
ParseKeyFile ==
    /\ pc = "start"
    /\ \E f \in KeyFiles :
          /\ file' = f
          /\ tsv_data' = parse_tsv_file(f)
    /\ pc' = IF tsv_data'.raised THEN "parse_error" ELSE "parsed"
    /\ UNCHANGED <<scraper_vars, pipeline_vars, directory, tsv_files, mappings, all_mappings,
                   extracted_dates, file_idx, read_log, write_log, output, data_row>>

NextKeys == ParseKeyFile \/ Aggregate
SpecKeys == InitKeys /\ [][NextKeys]_vars

----------------------------------------------------------------------------
(* The scraper: IMFScraper.run of main.py (SpecScrape)                      *)

\* self.countries of IMFScraper, in the dict's order
countries == <<Ireland, Greece, Portugal>>

\* '<country>_IMF_External_Arrangements_<date><ext>'
DownloadName(country_name, date_value, file_ext) ==
    Str(country_name) \o "_IMF_External_Arrangements_" \o date_value \o file_ext

\* the extension both download methods cut from a file name
ExtensionOf(name) ==
    IF name = "extarr2.tsv" THEN ".tsv"
    ELSE IF name = "extarr2.aspx" THEN ".aspx"
    ELSE ""

\* download_tsv_direct: the file is requested and written under its new
\* name, or an exception makes the method return False
download_tsv_direct(country_name, date_value, web, files) ==
    IF web.direct = "saved"
    THEN [returned |-> TRUE,
          files |-> files \cup {DownloadName(country_name, date_value,
                                             ExtensionOf(web.url_name))}]
    ELSE [returned |-> FALSE, files |-> files]

\* download_tsv: False only when the link is not found or the click
\* raises; otherwise True, whether a new file appeared within the wait and
\* whether it could be renamed or not
download_tsv(country_name, date_value, web, files) ==
    IF web.browser = "no_link" THEN [returned |-> FALSE, files |-> files]
    ELSE IF web.browser = "no_new_file" THEN [returned |-> TRUE, files |-> files]
    ELSE IF web.browser = "rename_failed"
    THEN [returned |-> TRUE, files |-> files \cup {web.new_file}]
    ELSE [returned |-> TRUE,
          files |-> files \cup {DownloadName(country_name, date_value,
                                             ExtensionOf(web.new_file))}]

\* process_country on a site that behaves as web says
process_country(country_name, web, files) ==
    LET Fallback(current_date, direct) ==
            IF direct.returned THEN direct
            ELSE download_tsv(country_name, current_date, web, direct.files)
        Download(current_date) ==
            [current_date |-> current_date]
            @@ Fallback(current_date,
                        download_tsv_direct(country_name, current_date, web, files))
        failed == [returned |-> FALSE, files |-> files,
                   current_date |-> "unknown_date"]
    IN  IF ~web.navigate THEN failed
        ELSE IF ~web.select THEN failed
        ELSE IF ~web.submit THEN failed
        ELSE Download(IF web.date = "" THEN "unknown_date" ELSE web.date)

\* what the site and the browser do during one call of process_country
Good == [navigate |-> TRUE, select |-> TRUE, submit |-> TRUE,
         date |-> "2024-01-31", direct |-> "saved", url_name |-> "extarr2.aspx",
         browser |-> "no_link", new_file |-> "extarr2.tsv"]

WebBehaviours == {
    Good,
    [Good EXCEPT !.date = "", !.url_name = "extarr2"],
    [Good EXCEPT !.navigate = FALSE],
    [Good EXCEPT !.select = FALSE],
    [Good EXCEPT !.submit = FALSE],
    [Good EXCEPT !.direct = "failed"],
    [Good EXCEPT !.direct = "failed", !.browser = "renamed"],
    [Good EXCEPT !.direct = "failed", !.browser = "rename_failed"],
    [Good EXCEPT !.direct = "failed", !.browser = "no_new_file"] }

InitScrape ==
    /\ pc = "start"
    /\ directory = <<>> /\ tsv_files = <<>> /\ file = NoFile
    /\ tsv_data = NoData /\ mappings = NoMapping /\ all_mappings = <<>>
    /\ extracted_dates = <<>> /\ file_idx = 0 /\ read_log = <<>>
    /\ write_log = <<>> /\ output = <<>> /\ data_row = <<>>
    /\ ScraperIdle /\ PipelineIdle

\* if not self.setup_driver(): return False
SetupDriver ==
    /\ pc = "start"
    /\ \E ok \in BOOLEAN :
          IF ok THEN /\ driver' = "running" /\ run_result' = run_result
                     /\ pc' = "attempting"
          ELSE /\ driver' = driver /\ run_result' = "false" /\ pc' = "returned"
    /\ UNCHANGED <<country_idx, attempt, successful_downloads, download_dir, calls>>
    /\ UNCHANGED <<mapper_vars, pipeline_vars>>

\* the attempt loop without the `break' after a success
AttemptLoop_no_break(returned, att) ==
    [counted |-> returned, leave |-> att >= 2]

\* the control of `for attempt in range(1, 3)' after a call: a success is
\* counted and leaves the loop, a failure leaves it after the second attempt
AttemptLoop(returned, att) ==
    [counted |-> returned, leave |-> returned \/ att >= 2]

\* one pass of `for attempt in range(1, 3)' for the current country: the
\* page reload before a retry, the call of process_country, the counting;
\* an exception of the reload leaves run through `except' and `finally'
Attempt ==
    /\ pc = "attempting"
    /\ LET country_name == countries[country_idx + 1]
           Control(ctl) ==
               /\ successful_downloads' =
                      successful_downloads + (IF ctl.counted THEN 1 ELSE 0)
               /\ IF ctl.leave
                  THEN /\ country_idx' = country_idx + 1 /\ attempt' = 1
                       /\ pc' = IF country_idx + 1 = Len(countries)
                                THEN "summary" ELSE "attempting"
                  ELSE /\ country_idx' = country_idx /\ attempt' = attempt + 1
                       /\ pc' = pc
           Called(r) ==
               /\ calls' = Append(calls, [country |-> country_name,
                                          attempt |-> attempt,
                                          returned |-> r.returned,
                                          current_date |-> r.current_date,
                                          files |-> r.files])
               /\ download_dir' = r.files
               /\ driver' = driver /\ run_result' = run_result
               /\ Control(AttemptLoop(r.returned, attempt))
           Raised ==
               /\ run_result' = "false" /\ driver' = "quit" /\ pc' = "returned"
               /\ UNCHANGED <<country_idx, attempt, successful_downloads,
                              download_dir, calls>>
       IN  \E reload_ok \in BOOLEAN : \E web \in WebBehaviours :
               IF attempt > 1 /\ ~reload_ok THEN Raised
               ELSE Called(process_country(country_name, web, download_dir))
    /\ UNCHANGED <<mapper_vars, pipeline_vars>>

\* return successful_downloads == total_countries, and the `finally'
Return ==
    /\ pc = "summary"
    /\ run_result' = IF successful_downloads = Len(countries) THEN "true"
                     ELSE "false"
    /\ driver' = "quit"
    /\ pc' = "returned"
    /\ UNCHANGED <<country_idx, attempt, successful_downloads, download_dir, calls>>
    /\ UNCHANGED <<mapper_vars, pipeline_vars>>

NextScrape == SetupDriver \/ Attempt \/ Return
SpecScrape == InitScrape /\ [][NextScrape]_vars

----------------------------------------------------------------------------
(* The orchestrator: run_pipeline of orchestrator.py (SpecPipeline)         *)

\* the exit code of `python map.py' by the way main ends: it returns None
\* after the two error messages ("no_country_files", "no_valid_date") as
\* after the export ("exported"), and the script ends with code 0; only an
\* exception that reaches the top of the script ends it with code 1
MapperExit(how) == IF how = "exception" THEN "exit_1" ELSE "exit_0"

\* the path of the file the scraper leaves for a country in ./downloads
DownloadPath(country_name, date_value) ==
    <<".","/","d","o","w","n","l","o","a","d","s","/">> \o country_name \o <<"_","I","M","F","_","E","x","t","e","r","n","a","l","_","A","r","r","a","n","g","e","m","e","n","t","s","_">>
        \o date_value \o <<".","a","s","p","x">>

\* the downloads a run can find or leave: for each country no file, a file
\* with the date of the form, or a file of a call that got no date
DownloadSets ==
    {i \cup g \cup p :
        i \in {{}, {DownloadPath(Ireland, <<"2","0","2","4","-","0","1","-","3","1">>)},
               {DownloadPath(Ireland, <<"u","n","k","n","o","w","n","_","d","a","t","e">>)}},
        g \in {{}, {DownloadPath(Greece, <<"2","0","2","4","-","0","1","-","3","1">>)},
               {DownloadPath(Greece, <<"u","n","k","n","o","w","n","_","d","a","t","e">>)}},
        p \in {{}, {DownloadPath(Portugal, <<"2","0","2","4","-","0","2","-","2","9">>)},
               {DownloadPath(Portugal, <<"u","n","k","n","o","w","n","_","d","a","t","e">>)}}}

NamesOf(paths) == {Str(basename(q)) : q \in paths}
PathsOf(names) == {q \in UNION DownloadSets : Str(basename(q)) \in names}

\* the file check_scraped_files finds for the country, if any
ScrapedFile(country_name, paths) ==
    {q \in paths :
        startswith(basename(q), country_name \o <<"_","I","M","F","_","E","x","t","e","r","n","a","l","_","A","r","r","a","n","g","e","m","e","n","t","s">>)}

\* check_scraped_files: True when at least one country has a file
check_scraped_files(paths) ==
    Cardinality({k \in 1..Len(countries) : ScrapedFile(countries[k], paths) # {}}) > 0

\* the dates main of map.py extracts from the files it finds, one file per
\* country at most
DatesOf(paths) ==
    LET found == {k \in 1..Len(Countries) : ScrapedFile(Countries[k], paths) # {}}
    IN  [c \in {Countries[k] : k \in found} |->
            extract_date_from_filename(CHOOSE q \in ScrapedFile(c, paths) : TRUE)]

\* the ways main of map.py can end on these files
MapperEndsOn(paths) ==
    IF paths = {} THEN {"no_country_files"}
    ELSE IF ~SelectDate(DatesOf(paths)).some THEN {"no_valid_date"}
    ELSE {"exported", "exception"}

InitPipeline ==
    /\ pc = "start"
    /\ directory = <<>> /\ tsv_files = <<>> /\ file = NoFile
    /\ tsv_data = NoData /\ mappings = NoMapping /\ all_mappings = <<>>
    /\ extracted_dates = <<>> /\ file_idx = 0 /\ read_log = <<>>
    /\ write_log = <<>> /\ output = <<>> /\ data_row = <<>>
    /\ driver = "none" /\ country_idx = 0 /\ attempt = 1
    /\ successful_downloads = 0 /\ run_result = "none" /\ calls = <<>>
    /\ download_dir \in {NamesOf(ps) : ps \in DownloadSets}
    /\ skip_scraping \in BOOLEAN /\ scraping_success = FALSE
    /\ mapping_success = FALSE /\ steps = <<>> /\ pipeline_result = "none"


\* the result of a step run_pipeline has executed
StepRecord(name, result, how) == [step |-> name, result |-> result, how |-> how]

\* run_pipeline's return after generate_summary_report
Report(scraping, mapping) == IF scraping /\ mapping THEN "true" ELSE "false"

\* check_files_exist and check_dependencies
PreFlight ==
    /\ pc = "start"
    /\ \E files_ok \in BOOLEAN, modules_ok \in BOOLEAN :
          IF ~files_ok
          THEN /\ steps' = Append(steps, StepRecord("check_files_exist", FALSE, "missing"))
               /\ pipeline_result' = "false" /\ pc' = "returned"
          ELSE IF ~modules_ok
          THEN /\ steps' = Append(steps, StepRecord("check_dependencies", FALSE, "missing"))
               /\ pipeline_result' = "false" /\ pc' = "returned"
          ELSE /\ steps' = Append(steps, StepRecord("check_dependencies", TRUE, "present"))
               /\ pipeline_result' = pipeline_result /\ pc' = "scraping"
    /\ UNCHANGED <<skip_scraping, scraping_success, mapping_success>>
    /\ UNCHANGED <<mapper_vars, scraper_vars>>

\* run_scraping_step: nothing is run and nothing is set with skip_scraping;
\* otherwise main.py runs, may leave files, and the way the child process
\* ends decides: exit code 0, another exit code, or the timeout
ScrapingStep ==
    /\ pc = "scraping"
    /\ IF skip_scraping
       THEN /\ steps' = Append(steps, StepRecord("run_scraping_step", TRUE, "skipped"))
            /\ UNCHANGED <<scraping_success, pipeline_result, download_dir>>
            /\ pc' = "checking"
       ELSE \E how \in {"exit_0", "exit_1", "timeout"} : \E ps \in DownloadSets :
               /\ PathsOf(download_dir) \subseteq ps
               /\ download_dir' = NamesOf(ps)
               /\ steps' = Append(steps, StepRecord("run_scraping_step", how = "exit_0", how))
               /\ scraping_success' = (how = "exit_0")
               /\ pipeline_result' = IF how = "exit_0" THEN pipeline_result ELSE "false"
               /\ pc' = IF how = "exit_0" THEN "checking" ELSE "returned"
    /\ UNCHANGED <<skip_scraping, mapping_success>>
    /\ UNCHANGED <<mapper_vars, driver, country_idx, attempt,
                   successful_downloads, run_result, calls>>

\* if not self.check_scraped_files(): ... return False
CheckScrapedFiles ==
    /\ pc = "checking"
    /\ LET Checked(ok) ==
               /\ steps' = Append(steps, StepRecord("check_scraped_files", ok, "listed"))
               /\ pipeline_result' = IF ok THEN pipeline_result ELSE "false"
               /\ pc' = IF ok THEN "mapping" ELSE "returned"
       IN  Checked(check_scraped_files(PathsOf(download_dir)))
    /\ UNCHANGED <<skip_scraping, scraping_success, mapping_success>>
    /\ UNCHANGED <<mapper_vars, scraper_vars>>

\* run_mapping_step and the final report: map.py runs on the files in the
\* directory and its exit code decides
MappingStep ==
    /\ pc = "mapping"
    /\ LET Ran(how, code) ==
               /\ steps' = Append(steps, StepRecord("run_mapping_step", code = "exit_0", how))
               /\ mapping_success' = (code = "exit_0")
               /\ pipeline_result' = IF code = "exit_0"
                                     THEN Report(scraping_success, TRUE)
                                     ELSE "false"
       IN  \/ \E how \in MapperEndsOn(PathsOf(download_dir)) :
                 Ran(how, MapperExit(how))
           \/ Ran("timeout", "timeout")
    /\ pc' = "returned"
    /\ UNCHANGED <<skip_scraping, scraping_success>>
    /\ UNCHANGED <<mapper_vars, scraper_vars>>

NextPipeline == PreFlight \/ ScrapingStep \/ CheckScrapedFiles \/ MappingStep
SpecPipeline == InitPipeline /\ [][NextPipeline]_vars

----------------------------------------------------------------------------
(* Properties of parsing and aggregating one file (SpecParse)               *)

Parsed == pc \in {"parsed", "mapped", "mapping_error"}

\* the 1-based number of the header line of the current file
HeaderAt == find_data_start(file.lines).start

\* the record built from line i of the current file, if any
FromLine(i) == {k \in 1..Len(tsv_data.src) : tsv_data.src[k] = i}

RoundTripFile ==
    [readable |-> TRUE,
     lines |-> << <<"I","r","e","l","a","n","d",":"," ","H","i","s","t","o","r","y"," ","o","f"," ","L","e","n","d","i","n","g"," ","C","o","m","m","i","t","m","e","n","t","s","\n">>,
                  <<"F","a","c","i","l","i","t","y","\t","D","a","t","e"," ","o","f"," ","A","r","r","a","n","g","e","m","e","n","t","\t","A","m","o","u","n","t"," ","A","g","r","e","e","d","\t","A","m","o","u","n","t"," ","D","r","a","w","n","\t","A","m","o","u","n","t"," ","O","u","t","s","t","a","n","d","i","n","g","\n">>,
                  <<"E","x","t","e","n","d","e","d"," ","F","u","n","d"," ","F","a","c","i","l","i","t","y","\t","D","e","c"," ","1","6",","," ","2","0","1","0","\t","1","0","0","\t","5","0","\t","5","0","\n">> >>]

HasValue(m, key, v) == key \in DOMAIN m /\ m[key] = v

\* C1: parsing then aggregating the Ireland file with the five columns in
\* the order facility, date, agreed, drawn, outstanding and the one row
\* (Extended Fund Facility, Dec 16, 2010, 100, 50, 50) yields
\* IMFEOD.EXTFUNDFACILITY2010DEC16.AMOUNTAGREED.IRL.M = 100 and
\* IMFEOD.TOTAL.AMOUNTAGREED.IRL.M = 100.
C1_RoundTrip ==
    (file = RoundTripFile /\ pc \in {"mapped", "mapping_error", "parse_error"}) =>
        /\ pc = "mapped"
        /\ HasValue(mappings.mappings,
                    "IMFEOD.EXTFUNDFACILITY2010DEC16.AMOUNTAGREED.IRL.M", Dec(100, 0))
        /\ HasValue(mappings.mappings, "IMFEOD.TOTAL.AMOUNTAGREED.IRL.M", Dec(100, 0))

\* the header-keyword patterns read as regular expressions
FollowedBy(a, b, s) ==
    \E i \in 0..Len(s) : MatchAt(a, s, i) /\ \E j \in (i + Len(a))..Len(s) : MatchAt(b, s, j)
MatchesHeaderKeyword(line) ==
    LET ll == lower(line)
    IN  \/ contains(<<"f","a","c","i","l","i","t","y">>, ll) \/ contains(<<"a","r","r","a","n","g","e","m","e","n","t">>, ll)
        \/ contains(<<"t","y","p","e">>, ll)
        \/ FollowedBy(<<"d","a","t","e">>, <<"a","m","o","u","n","t">>, ll)
        \/ \E i \in 0..Len(ll) :
              /\ MatchAt(<<"a","g","r","e","e","d">>, ll, i)
              /\ FollowedBy(<<"d","r","a","w","n">>, <<"o","u","t","s","t","a","n","d","i","n","g">>, SubSeq(ll, i + 7, Len(ll)))
HasTab(line) == \E i \in 1..Len(line) : line[i] = "\t"
NoHeaderLine ==
    \A i \in 1..Len(file.lines) :
        ~(HasTab(file.lines[i]) /\ MatchesHeaderKeyword(file.lines[i]))

\* C2: when no line of the file both contains a tab and matches a
\* header-keyword pattern, parse_tsv_file raises; it returns no dataset.
C2_NoHeaderRaises ==
    (pc # "start" /\ NoHeaderLine) => (pc = "parse_error" /\ tsv_data.raised)

C2_Witness ==
    /\ pc = "parse_error" /\ file.readable /\ NoHeaderLine
    /\ Len(file.lines) = 4
    /\ file.lines[2] = <<"F","a","c","i","l","i","t","y","\n">>

MentionsTotal(s) == contains(<<"t","o","t","a","l">>, lower(s))
TotalKeys == {TotalKey(amount_types[a], country_codes[c]) :
                 a \in 1..3, c \in DOMAIN country_codes}

\* C3 as stated: no column key other than a TOTAL.* key is derived from a
\* line that contains the word `total' anywhere.
C3_NoKeyFromTotalLine ==
    pc = "mapped" =>
        \A k \in 1..Len(tsv_data.facilities) :
            MentionsTotal(file.lines[tsv_data.src[k]]) =>
                \A w \in Range(FacilityWrites(tsv_data.country.name,
                                              tsv_data.facilities[k])) :
                    w.key \in TotalKeys

\* C3 amended: a line after the header whose first cell contains `total'
\* (any case), such as `Total Commitments', never becomes a facility record.
C3_FirstCellTotalSkipped ==
    Parsed =>
        \A i \in (HeaderAt + 1)..Len(file.lines) :
            MentionsTotal(split(file.lines[i], "\t")[1]) => FromLine(i) = {}

C3_Witness ==
    /\ pc = "mapped"
    /\ Len(file.lines) = 4
    /\ split(file.lines[3], "\t")[1] = <<"T","o","t","a","l"," ","C","o","m","m","i","t","m","e","n","t","s">>
    /\ tsv_data.src = <<4>>

\* the column mapping detected for the current file
ColumnMap == find_data_start(file.lines).column_map

\* the cell of line i in the column that cm gives an amount role
AmountCell(cm, i, field) ==
    LET Cell(parts) ==
            IF field \in DOMAIN cm /\ cm[field] < Len(parts)
            THEN [present |-> TRUE, text |-> parts[cm[field] + 1]]
            ELSE [present |-> FALSE, text |-> <<>>]
    IN  Cell(split(strip(file.lines[i]), "\t"))

AmountFields == {"amount_agreed", "amount_drawn", "amount_outstanding"}

\* C4: `1,234.50' cleans to 1234.5, the empty and the blank string to 0.0,
\* and a row with `abc' in a detected amount column yields no facility (and
\* so nothing in the totals).
C4_AmountCleaning ==
    /\ clean_amount(<<"1",",","2","3","4",".","5","0">>) = [ok |-> TRUE, val |-> [m |-> 12345, e |-> 1]]
    /\ clean_amount(<<>>) = [ok |-> TRUE, val |-> [m |-> 0, e |-> 0]]
    /\ clean_amount(<<" "," ">>) = [ok |-> TRUE, val |-> [m |-> 0, e |-> 0]]
    /\ Parsed =>
        LET ds == find_data_start(file.lines)
            Cleaned(i, fld, cell) ==
                cell.present =>
                  /\ cell.text = <<"a","b","c">> => FromLine(i) = {}
                  /\ \A k \in FromLine(i) :
                        /\ cell.text = <<"1",",","2","3","4",".","5","0">> =>
                              tsv_data.facilities[k][fld] = [m |-> 12345, e |-> 1]
                        /\ strip(cell.text) = <<>> =>
                              tsv_data.facilities[k][fld] = [m |-> 0, e |-> 0]
        IN  \A i \in (ds.start + 1)..Len(file.lines) : \A fld \in AmountFields :
                Cleaned(i, fld, AmountCell(ds.column_map, i, fld))

C4_Witness ==
    /\ pc = "mapped"
    /\ Len(file.lines) = 4
    /\ AmountCell(ColumnMap, 3, "amount_outstanding") = [present |-> TRUE, text |-> <<"a","b","c">>]
    /\ AmountCell(ColumnMap, 4, "amount_outstanding") = [present |-> TRUE, text |-> <<"1",",","2","3","4",".","5","0">>]
    /\ AmountCell(ColumnMap, 4, "amount_drawn") = [present |-> TRUE, text |-> <<" ">>]
    /\ tsv_data.src = <<4>>
    /\ tsv_data.facilities[1].amount_outstanding = [m |-> 12345, e |-> 1]
    /\ tsv_data.facilities[1].amount_drawn = [m |-> 0, e |-> 0]
    /\ mappings.mappings["IMFEOD.TOTAL.AMOUNTOUTSTANDING.IRL.M"] = [m |-> 12345, e |-> 1]

AmountField(a) ==
    IF a = 1 THEN "amount_agreed" ELSE IF a = 2 THEN "amount_drawn"
    ELSE "amount_outstanding"

\* C9: the mapping of a dataset of a known country holds the three TOTAL
\* keys of that country, each equal to the sum of the amount over all the
\* facility records (0 when there is none).
C9_TotalsAreSums ==
    pc = "mapped" =>
        \A a \in 1..3 :
            HasValue(mappings.mappings,
                     TotalKey(amount_types[a], country_codes[tsv_data.country.name]),
                     Sum(Column(tsv_data.facilities, AmountField(a))))

----------------------------------------------------------------------------
(* Properties of the projection (SpecProject)                               *)

SchemaLength == Len(HARDCODED_COLUMN_HEADERS) - 1
\* the position of a schema key among the value cells
PositionInSchema(K) ==
    (CHOOSE j \in 2..Len(HARDCODED_COLUMN_HEADERS) : HARDCODED_COLUMN_HEADERS[j] = K) - 1

\* C5: the projection has exactly 30 cells; a schema key of the mapping
\* puts its value at the key's position, every schema key absent from the
\* mapping gives 0, and keys outside the schema are ignored; so a mapping
\* with one schema key K gives K's value at K's position and 0 elsewhere.
C5_ProjectionOnSchema ==
    pc = "projected" =>
        /\ Len(output) = 30
        /\ SchemaLength = 30
        /\ \A K \in SchemaKeys :
              output[PositionInSchema(K)] =
                  IF K \in DOMAIN all_mappings THEN all_mappings[K]
                  ELSE [m |-> 0, e |-> 0]
        /\ \A K \in SchemaKeys :
              DOMAIN all_mappings \cap SchemaKeys = {K} =>
                  \A j \in 1..30 :
                      output[j] = IF j = PositionInSchema(K) THEN all_mappings[K]
                                  ELSE [m |-> 0, e |-> 0]

C5_Witness ==
    /\ pc = "projected"
    /\ DOMAIN all_mappings =
           {"IMFEOD.TOTAL.AMOUNTAGREED.GRC.M", "IMFEOD.TOTAL.AMOUNTAGREED.ESP.M"}
    /\ all_mappings["IMFEOD.TOTAL.AMOUNTAGREED.GRC.M"] = [m |-> 12345, e |-> 1]
    /\ output[13] = [m |-> 12345, e |-> 1]
    /\ \A j \in (1..30) \ {13} : output[j] = [m |-> 0, e |-> 0]

----------------------------------------------------------------------------
(* Properties of the locator (SpecLocate)                                   *)

\* the file name starts with `<Country>_' as written, in lower or in upper
\* case
NameMatches(c, name) ==
    LET n == Len(c) + 1
    IN  /\ Len(name) >= n
        /\ name[n] = "_"
        /\ \/ SubSeq(name, 1, n - 1) = c
           \/ SubSeq(name, 1, n - 1) = lower(c)
           \/ SubSeq(name, 1, n - 1) = upper(c)
MatchesOf(c) == {i \in 1..Len(directory) : NameMatches(c, directory[i].name)}

\* C6: for each country with a matching file the result holds a matching
\* file of maximal modification time; a country without a match has no
\* entry (and the search ends without error).
C6_LatestFileSelected ==
    pc # "start" =>
        \A c \in Range(Countries) :
            IF MatchesOf(c) = {} THEN c \notin DOMAIN tsv_files
            ELSE /\ c \in DOMAIN tsv_files
                 /\ \E i \in MatchesOf(c) :
                       /\ tsv_files[c] = directory[i].root \o <<"/">> \o directory[i].name
                       /\ \A j \in MatchesOf(c) :
                             directory[i].mtime >= directory[j].mtime

C6_Witness ==
    /\ pc = "located"
    /\ Len(directory) = 2
    /\ directory[1] = [root |-> <<".","/","s","u","b">>, name |-> <<"I","r","e","l","a","n","d","_","d","a","t","a","_","2","0","2","4","-","0","3","-","0","1",".","t","s","v">>,
                       mtime |-> 2]
    /\ directory[2] = [root |-> <<".">>, name |-> <<"I","r","e","l","a","n","d","_","d","a","t","a","_","2","0","2","4","-","0","1","-","0","5",".","t","s","v">>,
                       mtime |-> 1]
    /\ DOMAIN tsv_files = {Ireland}
    /\ tsv_files[Ireland] = <<".","/","s","u","b","/","I","r","e","l","a","n","d","_","d","a","t","a","_","2","0","2","4","-","0","3","-","0","1",".","t","s","v">>

----------------------------------------------------------------------------
(* Properties of the run (Spec)                                             *)

\* what a file contributes when it is processed alone: its mapping, or
\* nothing when parsing or aggregating it fails
Fails(fobj) ==
    LET OfData(data) == data.raised \/ generate_mapping_from_tsv(data).raised
    IN  OfData(parse_tsv_file(fobj))
Alone(fobj) ==
    LET OfMappings(country_mappings) ==
            IF country_mappings.raised THEN <<>> ELSE country_mappings.mappings
        OfData(data) ==
            IF data.raised THEN <<>>
            ELSE OfMappings(generate_mapping_from_tsv(data))
    IN  OfData(parse_tsv_file(fobj))

RECURSIVE MergeAlone(_)
MergeAlone(log) ==
    IF Len(log) = 0 THEN <<>>
    ELSE Alone(log[Len(log)].fobj) @@ MergeAlone(SubSeq(log, 1, Len(log) - 1))

RunOver == pc \in {"exported", "no_date", "no_files", "crashed"}

\* C7: a file that fails to parse or aggregate never ends the run and never
\* keeps the later files from being processed; it contributes no key, and
\* the others contribute what they contribute alone.
C7_PerFileIsolation ==
    /\ pc # "crashed"
    /\ pc \in {"exported", "no_date"} => Len(read_log) = Cardinality(DOMAIN tsv_files)
    /\ all_mappings = MergeAlone(read_log)

C7_Witness ==
    /\ pc = "exported"
    /\ Len(read_log) = 3
    /\ parse_tsv_file(read_log[1].fobj).raised /\ read_log[1].fobj.readable
    /\ ~parse_tsv_file(read_log[2].fobj).raised /\ Fails(read_log[2].fobj)
    /\ ~Fails(read_log[3].fobj)
    /\ DOMAIN all_mappings # {}
    /\ all_mappings = Alone(read_log[3].fobj)

ProducedKey == \E i \in 1..Len(read_log) : DOMAIN Alone(read_log[i].fobj) # {}

\* C8 as stated: the run writes the output file whenever at least one
\* located file produced at least one key.
C8_SucceedsWithOneKey ==
    (RunOver /\ ProducedKey) => (pc = "exported" /\ output # <<>>)

\* the file name holds a date in one of the formats of date_patterns
HasDate(path) ==
    \E k \in 1..Len(date_patterns) : FirstMatch(date_patterns[k], basename(path)).found

\* C8 amended: the run writes the output file whenever at least one located
\* file produced at least one key and the name of at least one located
\* file holds a recognisable date.
C8_SucceedsWithKeyAndDate ==
    (RunOver /\ ProducedKey /\ \E c \in DOMAIN tsv_files : HasDate(tsv_files[c]))
        => (pc = "exported" /\ output # <<>>)

C8_Witness ==
    /\ pc = "exported"
    /\ ProducedKey
    /\ \E c \in DOMAIN tsv_files : ~HasDate(tsv_files[c])
    /\ \E i \in 1..Len(read_log) : Fails(read_log[i].fobj)
    /\ output.output_file = "IMFEOD_DATA_202403_OUTPUT.xlsx"

WritesTo(k) == {i \in 1..Len(write_log) : write_log[i].key = k}
WrittenKeys == {write_log[i].key : i \in 1..Len(write_log)}

\* C10: the aggregate mapping holds, for every key written, the value of
\* the last write to that key in file-then-record order.
C10_LastWriteWins ==
    /\ DOMAIN all_mappings = WrittenKeys
    /\ \A k \in WrittenKeys : all_mappings[k] = write_log[Max(WritesTo(k))].value

C10_Witness ==
    /\ pc = "exported"
    /\ \E k \in WrittenKeys : \E i, j \in WritesTo(k) :
          /\ i < j /\ j = Max(WritesTo(k))
          /\ write_log[i].value # write_log[j].value
          /\ all_mappings[k] = write_log[j].value
          /\ j - i > 6

----------------------------------------------------------------------------
(* Further properties of parsing one file (SpecParse)                       *)

\* C11: every facility record produced by parsing has non-negative
\* amount_agreed, amount_drawn and amount_outstanding; a row with a
\* negative amount text is rejected, not recorded.
C11_NonNegativeAmounts ==
    Parsed =>
        \A k \in 1..Len(tsv_data.facilities) : \A fld \in AmountFields :
            tsv_data.facilities[k][fld].m >= 0

----------------------------------------------------------------------------
(* Further properties of the run (Spec)                                     *)

\* no country pattern matches any of the first 20 lines
NoCountryInFirst20(ls) ==
    \A i \in 1..Len(ls) : i <= 20 => ~CountryMatch(ls[i]).some

\* the file read by the step just taken
JustRead == read_log'[Len(read_log')].fobj

\* C12: processing a file none of whose first 20 lines matches a country
\* pattern is not fatal: the step adds no key to the aggregate mapping and
\* writes nothing, and the loop goes on to the next file; a country named
\* after line 20 does not count.
C12_NoCountryNoKeys ==
    [][(/\ Len(read_log') = Len(read_log) + 1
        /\ JustRead.readable
        /\ NoCountryInFirst20(JustRead.lines))
           => /\ all_mappings' = all_mappings
              /\ write_log' = write_log
              /\ pc' = "located"
              /\ file_idx' = file_idx + 1]_vars

C12_Witness ==
    /\ pc = "exported"
    /\ Len(read_log) = 2
    /\ read_log[1].fobj = LateTitleFile
    /\ CountryMatch(LateTitleFile.lines[21]).some
    /\ NoCountryInFirst20(read_log[1].fobj.lines)
    /\ ~Fails(read_log[2].fobj)
    /\ DOMAIN all_mappings # {}
    /\ all_mappings = Alone(read_log[2].fobj)

\* a text of the form YYYY-MM
IsYearMonth(s) ==
    /\ Len(s) = 7 /\ s[5] = "-"
    /\ \A i \in {1, 2, 3, 4, 6, 7} : IsDigit(s[i])

\* the order of YYYY-MM texts: by year, then by month
YearMonthNumber(s) == 100 * ParseNat(SubSeq(s, 1, 4)) + ParseNat(SubSeq(s, 6, 7))

\* a file name for each of the five date formats
FormatSamples == << <<".","/","I","r","e","l","a","n","d","_","2","0","2","5","-","0","8","-","3","1",".","t","s","v">>, <<".","/","I","r","e","l","a","n","d","_","2","0","2","5","0","8","3","1",".","t","s","v">>,
                    <<".","/","I","r","e","l","a","n","d","_","3","1","-","0","8","-","2","0","2","5",".","t","s","v">>, <<".","/","I","r","e","l","a","n","d","_","3","1","/","0","8","/","2","0","2","5",".","t","s","v">>,
                    <<".","/","I","r","e","l","a","n","d","_","2","0","2","5","_","0","8","_","3","1",".","t","s","v">> >>

\* the dates of the located files' names, those without a date left out
DatesOfLocated ==
    {extract_date_from_filename(tsv_files[c]) : c \in DOMAIN tsv_files} \ {unknown}

----------------------------------------------------------------------------
(* Properties of the export (SpecExport)                                    *)

\* C14: the three rows handed to the writer (machine keys; descriptive
\* labels after a blank; date and values) have the same number of cells,
\* that of the fixed schema; values that are too few are padded with
\* zeros and values that are too many are cut, whatever their number.
C14_ThreeRowsOfSchemaLength ==
    pc = "exported" =>
        /\ Len(output.rows) = 3
        /\ \A r \in 1..3 : Len(output.rows[r]) = Len(HARDCODED_COLUMN_HEADERS)
        /\ output.rows[1] = HARDCODED_COLUMN_HEADERS
        /\ output.rows[2][1] = ""
        /\ \A j \in 1..Len(HARDCODED_DESCRIPTIVE_HEADERS) :
              output.rows[2][j + 1] = HARDCODED_DESCRIPTIVE_HEADERS[j]
        /\ output.rows[3][1] = "2024-03"
        /\ \A j \in 1..SchemaLength :
              output.rows[3][j + 1] =
                  IF j <= Len(data_row) THEN data_row[j] ELSE [m |-> 0, e |-> 0]

C14_Witness ==
    /\ pc = "exported"
    /\ Len(data_row) = SchemaLength + 2
    /\ data_row[SchemaLength] = [m |-> SchemaLength, e |-> 0]
    /\ Len(output.rows[3]) = 31
    /\ output.rows[3][31] = [m |-> 30, e |-> 0]

----------------------------------------------------------------------------
(* Determinism of parsing and aggregating (Spec)                            *)

\* the position in the walk of the file located for a country
WalkIndex(c) ==
    CHOOSE i \in 1..Len(directory) : join(directory[i].root, directory[i].name) = tsv_files[c]

----------------------------------------------------------------------------
(* Further properties of the projection (SpecProject)                       *)

----------------------------------------------------------------------------
(* Header detection: roles, first match, header line, missing facility role *)

\* the tokens of a header line, as detect_columns splits it
TokensOf(header_line) == split(strip(header_line), "\t")

\* some substring of the role cp is contained in the token
MatchesRole(cp, header) ==
    \E p \in Range(cp.patterns) : contains(p, strip(lower(header)))

\* the 0-based indexes of the tokens of the line that match the role cp
MatchingTokens(cp, header_line) ==
    LET Among(headers) ==
            {i \in 0..(Len(headers) - 1) : MatchesRole(cp, headers[i + 1])}
    IN  Among(TokensOf(header_line))

\* every role with a matching token of the line has an index in column_map
EveryMatchedRoleMapped(header_line, column_map) ==
    \A k \in 1..Len(column_patterns) :
        MatchingTokens(column_patterns[k], header_line) # {}
            => column_patterns[k].field \in DOMAIN column_map

\* C17: after parse_tsv_file has run on a file in which find_data_start
\* finds a header, every one of the five roles that some token of the
\* header matches has a column index, whatever the order of the columns
C17_EveryMatchedRoleDetected ==
    LET Detected(ds) ==
            ds.found => EveryMatchedRoleMapped(file.lines[ds.start], ds.column_map)
    IN  (pc \in {"parsed", "parse_error"} /\ file.readable)
            => Detected(find_data_start(file.lines))

\* the index of every mapped role is that of the first token matching it
FirstMatchKept(header_line, column_map) ==
    \A k \in 1..Len(column_patterns) :
        LET First(field, matching) ==
                field \in DOMAIN column_map
                    => matching # {} /\ column_map[field] = Min(matching)
        IN  First(column_patterns[k].field,
                  MatchingTokens(column_patterns[k], header_line))

\* C18: after parse_tsv_file has run on a file with a header, the index
\* detect_columns gave a role is that of the first header token matching
\* the role; a later token that also matches has not changed it
C18_FirstMatchingTokenWins ==
    LET Detected(ds) ==
            ds.found => FirstMatchKept(file.lines[ds.start], ds.column_map)
    IN  (pc \in {"parsed", "parse_error"} /\ file.readable)
            => Detected(find_data_start(file.lines))

\* the header keywords as regular expressions: each pattern is its
\* literal words, to be found in that order with `.*' between them
header_regexes == << << <<"f","a","c","i","l","i","t","y">> >>, << <<"a","r","r","a","n","g","e","m","e","n","t">> >>, << <<"t","y","p","e">> >>,
                     << <<"d","a","t","e">>, <<"a","m","o","u","n","t">> >>,
                     << <<"a","g","r","e","e","d">>, <<"d","r","a","w","n">>, <<"o","u","t","s","t","a","n","d","i","n","g">> >> >>

\* the words occur in s one after another, the first at offset from or
\* later, with no newline skipped (`.' does not match a newline)
RECURSIVE MatchesFrom(_, _, _)
MatchesFrom(words, s, from) ==
    IF Len(words) = 0 THEN TRUE
    ELSE \E i \in from..(Len(s) - Len(words[1])) :
            /\ MatchAt(words[1], s, i)
            /\ \A n \in (from + 1)..i : s[n] # "\n"
            /\ MatchesFrom(Tail(words), s, i + Len(words[1]))

\* re.search of the pattern in s
SearchRegex(words, s) ==
    \E i \in 0..(Len(s) - Len(words[1])) :
        /\ MatchAt(words[1], s, i)
        /\ MatchesFrom(Tail(words), s, i + Len(words[1]))

\* the lines that contain a tab and match a header keyword pattern
RegexHeaderLines(ls) ==
    {i \in 1..Len(ls) :
        /\ contains(<<"\t">>, ls[i])
        /\ \E k \in 1..Len(header_regexes) :
              SearchRegex(header_regexes[k], lower(ls[i]))}

\* C19: after parse_tsv_file has run on a file, the header row is the
\* first line that contains a tab and matches one of the header keyword
\* patterns, date.*amount and agreed.*drawn.*outstanding included; the
\* records come from lines after it only
C19_HeaderIsFirstPatternLine ==
    LET Header(ds, hs) ==
            hs # {} =>
                /\ ds.found /\ ds.start = Min(hs)
                /\ \A k \in 1..Len(tsv_data.src) : tsv_data.src[k] > Min(hs)
    IN  (pc \in {"parsed", "parse_error"} /\ file.readable)
            => Header(find_data_start(file.lines), RegexHeaderLines(file.lines))

\* the current file was read and no facility_type role was detected in it
\* (no header at all included)
NoFacilityRole(ds) ==
    ~ds.found \/ "facility_type" \notin DOMAIN ds.column_map

FirstCell(i) == strip(split(strip(file.lines[i]), "\t")[1])

----------------------------------------------------------------------------
(* Skipped lines and malformed rows                                         *)

\* the tab-separated fields of a line as the file holds it
FieldsOf(line) == split(line, "\t")

\* the first field of the line is empty, or the line has fewer than 2 fields
EmptyFirstOrShort(line) ==
    LET Test(fields) == Len(strip(fields[1])) = 0 \/ Len(fields) < 2
    IN  Test(FieldsOf(line))

\* C21: after parse_tsv_file has run, no facility record comes from a
\* line after the header whose first tab-separated field is empty (the
\* line starts with a tab) or that has fewer than 2 fields
C21_EmptyFirstFieldSkipped ==
    LET Skipped(ds) ==
            \A i \in (ds.start + 1)..Len(file.lines) :
                EmptyFirstOrShort(file.lines[i]) => FromLine(i) = {}
    IN  pc = "parsed" => Skipped(find_data_start(file.lines))

\* the cell of the field is a number (an empty cell counts as 0)
IsAmountText(cell) == clean_amount(cell).ok

\* a row with a facility name in its first field, a cell for every
\* detected column, numbers in the detected amount columns, and no summary
\* word in its first field
WellFormedRow(line, column_map) ==
    LET Cells(fields) ==
            /\ Len(fields) >= 2
            /\ Len(strip(fields[1])) > 0
            /\ ~(\E w \in Range(summary_words) : contains(w, lower(fields[1])))
            /\ \A fld \in DOMAIN column_map : column_map[fld] < Len(fields)
            /\ \A fld \in DOMAIN column_map \cap AmountFields :
                  IsAmountText(fields[column_map[fld] + 1])
    IN  Cells(FieldsOf(line))

\* C23: when the header of a file was found with some column, parsing the
\* file does not fail whatever rows are dropped: every well-formed row
\* that is no summary row yields exactly one facility record, and the
\* records are in the order of their lines
C23_MalformedRowIsSkippedOnly ==
    LET Rows(ds) ==
            (ds.found /\ DOMAIN ds.column_map # {}) =>
                /\ pc = "parsed"
                /\ \A i \in (ds.start + 1)..Len(file.lines) :
                      WellFormedRow(file.lines[i], ds.column_map)
                          => Cardinality(FromLine(i)) = 1
                /\ \A k \in 1..(Len(tsv_data.src) - 1) :
                      tsv_data.src[k] < tsv_data.src[k + 1]
    IN  (pc \in {"parsed", "parse_error"} /\ file.readable)
            => Rows(find_data_start(file.lines))

\* a well-formed row, a row with text in an amount column, a well-formed
\* row: two records, from the first and the third row
C23_Witness ==
    /\ pc = "parsed"
    /\ file.lines[2] = ReversedHeader
    /\ Len(file.lines) = 5
    /\ file.lines[4] = <<"a","b","c","\t","5","0","\t","1","0","0","\t","D","e","c"," ","1","6",","," ","2","0","1","0","\t","E","x","t","e","n","d","e","d"," ","F","u","n","d"," ","F","a","c","i","l","i","t","y","\n">>
    /\ WellFormedRow(file.lines[3], ColumnMap)
    /\ WellFormedRow(file.lines[5], ColumnMap)
    /\ tsv_data.src = <<3, 5>>

----------------------------------------------------------------------------
(* The derivation of the column keys                                        *)

\* FAC of the reference derivation
RefFacility(facility_type) ==
    IF facility_type = <<"E","x","t","e","n","d","e","d"," ","F","u","n","d"," ","F","a","c","i","l","i","t","y">> THEN "EXTFUNDFACILITY"
    ELSE IF facility_type = <<"S","t","a","n","d","b","y"," ","A","r","r","a","n","g","e","m","e","n","t">> THEN "STANDBYARRANGEMENT"
    ELSE Str(upper(replace_del(facility_type, " ")))

\* the four year digits of a date text in the format `Mon D, YYYY'
YearDigits(date_str) == SubSeq(date_str, Len(date_str) - 3, Len(date_str))

\* the day digits of such a text, padded to two
DayDigits(date_str) ==
    LET At(p) == IF Span(date_str, p, DigitSet) = 1
                 THEN <<"0", date_str[p + 1]>>
                 ELSE SubSeq(date_str, p + 1, p + 2)
    IN  At(3 + Span(date_str, 3, SpaceSet))

\* DATE of the reference derivation, with the year written as year_text
RefDate(date_str, year_text) ==
    IF strptime(date_str).ok
    THEN year_text \o Str(upper(SubSeq(date_str, 1, 3))) \o Str(DayDigits(date_str))
    ELSE Str(upper(replace_del(replace_del(date_str, ","), " ")))

RefCode(country) ==
    IF country = Ireland THEN "IRL" ELSE IF country = Greece THEN "GRC" ELSE "PRT"

RefKey(country, facility_type, date_code, kind) ==
    "IMFEOD." \o RefFacility(facility_type) \o date_code \o "." \o kind
        \o "." \o RefCode(country) \o ".M"

\* the key written for amount type a of the k-th facility record
KeyWritten(k, a) == mappings.writes[3 * k + a].key

\* C22 as stated: every key written for a facility record equals
\* IMFEOD.<FAC><DATE>.<KIND>.<CODE>.M with DATE = YYYYMONDD, YYYY being the
\* four year digits of the date text, when the text parses.
C22_KeyIsReferenceDerivation ==
    pc = "mapped" =>
        \A k \in 1..Len(tsv_data.facilities) : \A a \in 1..3 :
            LET Key(f) ==
                    RefKey(tsv_data.country.name, f.facility_type,
                           RefDate(f.arrangement_date,
                                   Str(YearDigits(f.arrangement_date))),
                           amount_types[a])
            IN  KeyWritten(k, a) = Key(tsv_data.facilities[k])

\* C22, amended: the same with the year written as a number, without
\* leading zeros (four digits for the years from 1000 on).
C22_KeyIsReferenceWithYearNumber ==
    pc = "mapped" =>
        \A k \in 1..Len(tsv_data.facilities) : \A a \in 1..3 :
            LET Key(f) ==
                    RefKey(tsv_data.country.name, f.facility_type,
                           RefDate(f.arrangement_date,
                                   ToString(ParseNat(YearDigits(f.arrangement_date)))),
                           amount_types[a])
            IN  KeyWritten(k, a) = Key(tsv_data.facilities[k])

\* a Portuguese record of a known facility dated in the year 999
C22_Witness ==
    /\ pc = "mapped"
    /\ Len(tsv_data.facilities) = 1
    /\ tsv_data.facilities[1].arrangement_date = <<"D","e","c"," ","1","6",","," ","0","9","9","9">>
    /\ tsv_data.facilities[1].facility_type = <<"S","t","a","n","d","b","y"," ","A","r","r","a","n","g","e","m","e","n","t">>
    /\ KeyWritten(1, 2) = "IMFEOD.STANDBYARRANGEMENT999DEC16.AMOUNTDRAWN.PRT.M"

\* the keys of the writes all carry the country code
KeysCarry(writes, code) ==
    \A k \in 1..Len(writes) :
        LET Ends(key, tail) ==
                Len(key) >= Len(tail)
                    /\ SubSeq(key, Len(key) - Len(tail) + 1, Len(key)) = tail
        IN  Ends(writes[k].key, "." \o code \o ".M")

\* C24: a file whose detected country text is, in any letter case, a
\* variant listed in country_name_mappings is aggregated as the canonical
\* country: its keys are written and carry that country's code
C24_CountryVariantsNormalised ==
    LET Canonical(name) ==
            name \in DOMAIN country_name_mappings =>
                /\ pc = "mapped"
                /\ Len(mappings.writes) > 0
                /\ KeysCarry(mappings.writes,
                             country_codes[country_name_mappings[name]])
    IN  (pc \in {"mapped", "mapping_error"} /\ tsv_data.country.some)
            => Canonical(lower(tsv_data.country.name))

----------------------------------------------------------------------------
(* The country of the keys a run writes                                     *)

\* C25 as stated: every key written while the file located for a country
\* is processed carries that country's code.
C25_KeysCarryLocatedCountry ==
    \A i \in 1..Len(read_log) :
        KeysCarry(read_log[i].writes, country_codes[read_log[i].country])

\* C25, amended: every key written while a file is processed carries the
\* code of the country named in the text of the file, whichever country the
\* file was located for.
C25_KeysCarryCountryOfText ==
    \A i \in 1..Len(read_log) :
        LET Keys(e) ==
                Len(e.writes) > 0 =>
                    /\ e.tsv_data.country.some
                    /\ e.tsv_data.country.name \in DOMAIN country_codes
                    /\ KeysCarry(e.writes, country_codes[e.tsv_data.country.name])
        IN  Keys(read_log[i])

\* the file located for Ireland names Greece in its text and has written
\* a GRC key
C25_Witness ==
    \E i \in 1..Len(read_log) :
        /\ read_log[i].country = Ireland
        /\ read_log[i].tsv_data.country = Some(Greece)
        /\ Len(read_log[i].writes) = 6
        /\ read_log[i].writes[4].key
               = "IMFEOD.STANDBYARRANGEMENT2010MAY09.AMOUNTAGREED.GRC.M"
        /\ "IMFEOD.TOTAL.AMOUNTAGREED.GRC.M" \in DOMAIN all_mappings

\* C26: no key written for a facility record is a TOTAL key, whatever the
\* facility_type and arrangement_date texts are, and the TOTAL values of the
\* mapping are the ones written first
C26_NoFacilityKeyIsTotalKey ==
    pc = "mapped" =>
        /\ \A k \in 4..Len(mappings.writes) : mappings.writes[k].key \notin TotalKeys
        /\ \A a \in 1..3 :
              mappings.mappings[mappings.writes[a].key] = mappings.writes[a].value

----------------------------------------------------------------------------
(* The scraper's retries and downloads (SpecScrape)                         *)

\* the calls of process_country made for the country, as indexes of calls
CallsFor(c) == {i \in 1..Len(calls) : calls[i].country = c}
Succeeded(c) == \E i \in CallsFor(c) : calls[i].returned

\* C28: in every state of a run of IMFScraper.run, each country has been
\* attempted at most twice, a second attempt follows a failed first one of
\* the same country, no call follows a success of its country, the counter
\* successful_downloads is the number of countries that succeeded, run
\* has returned True exactly when all three succeeded, and after run has
\* returned the driver is not left running
C28_RetryDiscipline ==
    /\ \A k \in 1..Len(countries) : Cardinality(CallsFor(countries[k])) <= 2
    /\ \A i \in 1..Len(calls) :
          calls[i].attempt = 2 =>
              /\ i > 1 /\ calls[i - 1].country = calls[i].country
              /\ calls[i - 1].attempt = 1 /\ ~calls[i - 1].returned
    /\ \A i \in 1..Len(calls) : \A j \in (i + 1)..Len(calls) :
          calls[i].country = calls[j].country => ~calls[i].returned
    /\ successful_downloads
          = Cardinality({k \in 1..Len(countries) : Succeeded(countries[k])})
    /\ pc = "returned" =>
          /\ run_result \in {"true", "false"}
          /\ run_result = "true"
                <=> \A k \in 1..Len(countries) : Succeeded(countries[k])
          /\ driver # "running"
    /\ pc # "returned" => run_result = "none"

\* run has returned True after Greece needed its second attempt
C28_Witness ==
    /\ pc = "returned" /\ run_result = "true" /\ driver = "quit"
    /\ Len(calls) = 4
    /\ calls[2].country = Greece /\ ~calls[2].returned
    /\ calls[3].country = Greece /\ calls[3].attempt = 2 /\ calls[3].returned
    /\ successful_downloads = 3

FileExtensions == {"", ".tsv", ".aspx"}

\* C30: after every call of process_country that returned True, the
\* download directory holds a file named
\* <Country>_IMF_External_Arrangements_<date> followed by an extension, on
\* the direct path and on the browser path
C30_SuccessMeansFileExists ==
    \A i \in 1..Len(calls) :
        calls[i].returned =>
            \E file_ext \in FileExtensions :
                DownloadName(calls[i].country, calls[i].current_date, file_ext)
                    \in calls[i].files

----------------------------------------------------------------------------
(* The orchestrator's verdict (SpecPipeline)                                *)

\* the step has been executed, and with which result
Executed(name) == {i \in 1..Len(steps) : steps[i].step = name}

\* C27: when run_pipeline has returned with skip_scraping set and every
\* step it executed has succeeded, the mapping step included, it has
\* returned True
C27_SkippingIsNoFailure ==
    (/\ pc = "returned" /\ skip_scraping
     /\ Executed("run_mapping_step") # {}
     /\ \A i \in 1..Len(steps) : steps[i].result)
        => pipeline_result = "true"

\* C29: when run_pipeline has returned True, map.py has written its
\* output file in this run; and the mapping step counts as successful only
\* when map.py ended with the export
C29_SuccessMeansOutputWritten ==
    LET Exported == \E i \in Executed("run_mapping_step") : steps[i].how = "exported"
    IN  /\ pipeline_result = "true" => Exported
        /\ mapping_success => Exported

=============================================================================
